---- MODULE Spec2Model ----
(***************************************************************************)
(* SolidFS: a FUSE adapter that presents a Solid Pod as a file system.     *)
(*                                                                         *)
(* Strings that the code takes apart (paths, URIs) are sequences of        *)
(* tokens: the token "/" and name tokens that hold no "/".  A URI is the   *)
(* token sequence that follows SOLIDFS_BASE_URL (which ends with "/"), so  *)
(* the root Container is <<>> and https://pod/d/x is <<"d", "/", "x">>.    *)
(* Byte strings are sequences over the bytes "p" (a printable character),  *)
(* "h" (the start of an HTML document) and "0" (a NUL byte).               *)
(*                                                                         *)
(* Every handler is an operator from the adapter's state and the handler's *)
(* inputs (its arguments and the answers of the server to the requests it  *)
(* makes) to the new state, the return value and the requests made; the    *)
(* actions apply the handlers to the variables.                            *)
(***************************************************************************)
EXTENDS Integers, Sequences, FiniteSets, TLC

VARIABLES
    transport,  \* SOLIDFS_HTTP_LIBRARY: "httpx" or "requests" (the default)
    contains,   \* Container.contains of every known Container, by URI
    res,        \* the Resource objects of the hierarchy, by key
    wbuf,       \* SolidFS.resource_write_buffer
    rbuf,       \* SolidFS.resource_read_buffer
    srv,        \* the resources the Pod holds
    last,       \* the last callback: its name, what it returned, what it sent
    steps,      \* the number of callbacks so far
    conv,       \* a URIRef on its way through the conversions of URIRefHelper
    root,       \* SolidResourceHierarchy.root: None or the root Container
    thr,        \* the worker threads inside a callback: where each one is
    auth        \* SolidAuthentication: the cached token, the clock, the last call

vars == <<transport, contains, res, wbuf, rbuf, srv, last, steps, conv, root, thr, auth>>

-----------------------------------------------------------------------------
(* errno and stat constants *)

EFAULT == 14
ENOTDIR == 20
ENAMETOOLONG == 36
EINVAL == 22
EACCES == 13
ENOENT == 2
ENOTSUP == 95
EREMCHG == 78
EAGAIN == 11
EBADMSG == 74

S_IFDIR == 16384
S_IFREG == 32768
S_IRWXU == 448
Mode777 == 511
Mode755 == 493
Mode444 == 292

\* one_kib = 2 ^ 10 is an exclusive or (8), one_mib = 8 ** 2, UNKNOWN_SIZE = 100 * 64
UNKNOWN_SIZE == 6400

MaxPathLen == 1024
MagicWindow == 1024

DefaultContentType == "application/octet-stream"

-----------------------------------------------------------------------------
(* Python's string and bytes operations, on token and byte sequences *)

Min(a, b) == IF a < b THEN a ELSE b
Max(a, b) == IF a < b THEN b ELSE a

\* b[i:j] for 0 <= i
Slice(b, i, j) == SubSeq(b, Min(i, Len(b)) + 1, Min(j, Len(b)))

RECURSIVE Zeros(_)
Zeros(n) == IF n <= 0 THEN <<>> ELSE <<"0">> \o Zeros(n - 1)

Sentinel == "6291403e-8887-40ec-9e6d-7f394008a979"
Long1023 == "aaa...a (1023 characters)"
Long1024 == "aaa...a (1024 characters)"
NotAString == <<"<not a str>">>

TokLen(t) ==
    CASE t = Long1023 -> 1023
      [] t = Long1024 -> 1024
      [] t = Sentinel -> 36
      [] t = "a.ttl" -> 5
      [] t = "nope" -> 4
      [] OTHER -> 1

RECURSIVE PathLen(_)
PathLen(p) == IF p = <<>> THEN 0 ELSE TokLen(Head(p)) + PathLen(Tail(p))

HasSlash(p) == \E i \in 1..Len(p) : p[i] = "/"
StartsWithSlash(p) == p # <<>> /\ p[1] = "/"
EndsWithSlash(p) == p # <<>> /\ p[Len(p)] = "/"

RECURSIVE LStrip(_)
LStrip(p) == IF StartsWithSlash(p) THEN LStrip(Tail(p)) ELSE p

FirstSlash(p) == CHOOSE i \in 1..Len(p) : p[i] = "/" /\ \A j \in 1..(i - 1) : p[j] # "/"
LastSlash(p) == CHOOSE i \in 1..Len(p) : p[i] = "/" /\ \A j \in (i + 1)..Len(p) : p[j] # "/"

\* p.split("/")
RECURSIVE Split(_)
Split(p) ==
    IF ~HasSlash(p) THEN <<p>>
    ELSE <<SubSeq(p, 1, FirstSlash(p) - 1)>> \o Split(SubSeq(p, FirstSlash(p) + 1, Len(p)))

\* "/".join(parts)
RECURSIVE Join(_)
Join(parts) ==
    IF parts = <<>> THEN <<>>
    ELSE IF Len(parts) = 1 THEN parts[1]
    ELSE parts[1] \o <<"/">> \o Join(Tail(parts))

\* p.rsplit("/", 1) of a path that holds a "/"
RSplitParent(p) == SubSeq(p, 1, LastSlash(p) - 1)
RSplitName(p) == SubSeq(p, LastSlash(p) + 1, Len(p))

-----------------------------------------------------------------------------
(* SolidPathValidation and HTTPToErrNo *)

HasSentinel(p) == \E i \in 1..Len(p) : p[i] = Sentinel

\* the length compared with >=, so that 1024 characters are too long
ValidationRejects1024(path) ==
    IF path = NotAString THEN EFAULT
    ELSE IF HasSentinel(path) THEN EINVAL
    ELSE IF ~StartsWithSlash(path) THEN ENOTDIR
    ELSE IF PathLen(path) >= MaxPathLen THEN ENAMETOOLONG
    ELSE 0

get_path_validation_result_code(path) ==
    IF path = NotAString THEN EFAULT
    ELSE IF HasSentinel(path) THEN EINVAL
    ELSE IF ~StartsWithSlash(path) THEN ENOTDIR
    ELSE IF PathLen(path) > MaxPathLen THEN ENAMETOOLONG
    ELSE 0

\* "case 401, 403:" is a sequence pattern, which no integer matches
http_to_errno(code) ==
    IF 100 <= code /\ code < 200 THEN 0
    ELSE IF 200 <= code /\ code < 300 THEN 0
    ELSE IF 300 <= code /\ code < 400 THEN EREMCHG
    ELSE IF code = 404 THEN ENOENT
    ELSE IF code = 406 THEN ENOTSUP
    ELSE IF 400 <= code /\ code < 500 THEN EINVAL
    ELSE IF 500 <= code /\ code < 600 THEN EAGAIN
    ELSE EBADMSG

(* An exception: whether it is an HTTPStatusCodeException, its status code *)
(* and its class.                                                          *)
Exc(http, code, cls) == [http |-> http, code |-> code, cls |-> cls]
NoExc == Exc(FALSE, 0, "none")
GenericExc == Exc(FALSE, 0, "Exception")
\* a plain Exception where get_resource_by_path raises NotFoundException
NotFoundAsException == Exc(FALSE, 0, "Exception")
NotFoundExc == Exc(TRUE, 404, "NotFoundException")

\* HTTPStatusCodeToException.raise_exception_for_failed_requests (SolidHTTPX)
raise_exception_for_failed_requests(st) ==
    IF st < 300 THEN NoExc
    ELSE IF st < 400 THEN Exc(TRUE, st, "RedirectionException")
    ELSE IF st = 404 THEN Exc(TRUE, 404, "NotFoundException")
    ELSE IF st = 401 THEN Exc(TRUE, 401, "UnauthorizedException")
    ELSE IF st = 403 THEN Exc(TRUE, 403, "ForbiddenException")
    ELSE IF st = 406 THEN Exc(TRUE, 406, "NotAcceptableException")
    ELSE IF st < 500 THEN Exc(TRUE, st, "BadRequestException")
    ELSE IF st < 600 THEN Exc(TRUE, st, "ServerException")
    ELSE Exc(FALSE, st, "Exception")

\* SolidRequest.raise_exception_for_failed_requests: its own exception
\* classes, none of them an HTTPStatusCodeException
requests_raise_exception_for_failed_requests(st) ==
    IF st < 300 THEN NoExc
    ELSE IF st < 400 THEN Exc(FALSE, st, "solid_request.RedirectionException")
    ELSE IF st = 404 THEN Exc(FALSE, st, "solid_request.ResourceNotFoundException")
    ELSE IF st \in {401, 403} THEN Exc(FALSE, st, "solid_request.NoAccessException")
    ELSE IF st = 406 THEN Exc(FALSE, st, "solid_request.NotAcceptableException")
    ELSE Exc(FALSE, st, "solid_request.ServerException")

\* the except clauses of customize_return_based_on_exception_type
customize_return_based_on_exception_type(e) ==
    IF e.http THEN 0 - http_to_errno(e.code) ELSE 0 - EBADMSG

-----------------------------------------------------------------------------
(* SolidMime *)

\* magic.from_buffer(window, mime=True) of a non-empty window
Magic(window) ==
    IF window[1] = "h" THEN "text/html"
    ELSE IF \E i \in 1..Len(window) : window[i] = "0" THEN "application/octet-stream"
    ELSE "text/plain"

\* no detection at all: the content type stays what it was
KeepsContentType(offset, ct, content) == ct

\* the content type after update_mime_type_from_content(offset, resource, content)
update_mime_type_from_content(offset, ct, content) ==
    IF offset >= MagicWindow THEN ct
    ELSE IF Len(content) > 0 THEN Magic(Slice(content, 0, MagicWindow))
    ELSE ct

\* mimetypes.guess_type(uri, strict=False)[0], "" for None
GuessType(uri) ==
    IF uri # <<>> /\ uri[Len(uri)] = "a.ttl" THEN "text/turtle" ELSE ""

\* the content type after update_mime_type_from_uri(resource)
update_mime_type_from_uri(ct, uri) ==
    IF GuessType(uri) # "" THEN GuessType(uri) ELSE ct

-----------------------------------------------------------------------------
(* Resources *)

(* A Resource object: a File (dir = FALSE) or a Container, its URI and the  *)
(* number that tells it from the other objects with the same URI: the      *)
(* dataclass Resource compares its stat field too, which compares by       *)
(* identity, so that two objects are never equal and a set holds both.     *)
Key(dir, uri, id) == [dir |-> dir, uri |-> uri, id |-> id]
RootUri == <<>>
RootKey == Key(TRUE, RootUri, 1)

\* Resource(uri, ResourceStat(size, mode)) with the defaults of the class
Attr(ct, size, mode) == [ct |-> ct, size |-> size, mtime |-> 0, mode |-> mode, xmime |-> ""]

Unpopulated == [pop |-> FALSE, kids |-> {}]
Populated(kids) == [pop |-> TRUE, kids |-> kids]

\* f with x mapped to v, x added to the domain when it is not there
Put(f, x, v) == [y \in DOMAIN f \cup {x} |-> IF y = x THEN v ELSE f[y]]
Drop(f, x) == [y \in DOMAIN f \ {x} |-> f[y]]
Keep(f, D) == [y \in DOMAIN f \cap D |-> f[y]]
Empty == [y \in {} |-> 0]

\* the body K of a block with the value v it first computes: v = ...; K
Bind(v, K(_)) == K(v)

\* URIRefHelper.relative_to(start, end)
relative_to(start, end) == SubSeq(end, Len(start) + 1, Len(end))

IsPrefix(a, b) == Len(a) <= Len(b) /\ SubSeq(b, 1, Len(a)) = a

\* the members of container cu: cu + name and cu + name + "/"
IsChildUri(cu, u) ==
    /\ IsPrefix(cu, u)
    /\ LET r == relative_to(cu, u)
       IN /\ r # <<>>
          /\ r[1] # "/"
          /\ \/ Len(r) = 1
             \/ Len(r) = 2 /\ r[2] = "/"

-----------------------------------------------------------------------------
(* URLs.  A URL is the sequence of its characters; a few runs of           *)
(* characters that nothing ever splits are one element: the scheme, the   *)
(* "//" before the authority, the authority, the two hexadecimal digits    *)
(* of an escape.                                                           *)

Dino == "U+1F996"       \* one character outside ASCII, four bytes in UTF-8
Replacement == "U+FFFD" \* what decoding puts for bytes that are no character

\* the elements that are two hexadecimal digits
HexPairs == {"20", "23", "25", "3A", "3F", "F0", "9F", "A6", "96", "EF", "BF", "BD"}

\* str.lower() of a scheme
Lower(scheme) == IF scheme = "HTTPS" THEN "https" ELSE scheme

Schemes == {"https", "HTTPS"}

\* the index of the first element of string that is in chars, from index
\* from on; Len(string) + 1 if there is none
Find(string, chars, from) ==
    IF \E i \in from..Len(string) : string[i] \in chars
    THEN CHOOSE i \in from..Len(string) :
            string[i] \in chars /\ \A j \in from..(i - 1) : string[j] \notin chars
    ELSE Len(string) + 1

\* urllib.parse.urlsplit
urlsplit(url) ==
    LET has_scheme == Len(url) >= 2 /\ url[1] \in Schemes /\ url[2] = ":"
        rest == IF has_scheme THEN SubSeq(url, 3, Len(url)) ELSE url
        has_netloc == rest # <<>> /\ rest[1] = "//"
        delim == Find(rest, {"/", "?", "#"}, 2)
        after == IF has_netloc THEN SubSeq(rest, delim, Len(rest)) ELSE rest
        hash == Find(after, {"#"}, 1)
        before_hash == SubSeq(after, 1, hash - 1)
        mark == Find(before_hash, {"?"}, 1)
    IN [scheme |-> IF has_scheme THEN <<Lower(url[1])>> ELSE <<>>,
        netloc |-> IF has_netloc THEN SubSeq(rest, 2, delim - 1) ELSE <<>>,
        path |-> SubSeq(before_hash, 1, mark - 1),
        query |-> SubSeq(before_hash, mark + 1, Len(before_hash)),
        fragment |-> SubSeq(after, hash + 1, Len(after))]

\* urllib.parse.urlunsplit
urlunsplit(split) ==
    (IF split.scheme # <<>> THEN split.scheme \o <<":">> ELSE <<>>)
    \o (IF split.netloc # <<>>
        THEN <<"//">> \o split.netloc
             \o (IF split.path # <<>> /\ split.path[1] # "/" THEN <<"/">> ELSE <<>>)
        ELSE <<>>)
    \o split.path
    \o (IF split.query # <<>> THEN <<"?">> \o split.query ELSE <<>>)
    \o (IF split.fragment # <<>> THEN <<"#">> \o split.fragment ELSE <<>>)

\* urllib.parse.quote(string): "/" and the letters, digits and "_.-~" are
\* kept, any other character becomes the escapes of its bytes in UTF-8
RECURSIVE quote(_)
quote(string) ==
    IF string = <<>> THEN <<>>
    ELSE (CASE Head(string) = Dino -> <<"%", "F0", "%", "9F", "%", "A6", "%", "96">>
            [] Head(string) = Replacement -> <<"%", "EF", "%", "BF", "%", "BD">>
            [] Head(string) = "%" -> <<"%", "25">>
            [] Head(string) = "?" -> <<"%", "3F">>
            [] Head(string) = "#" -> <<"%", "23">>
            [] Head(string) = ":" -> <<"%", "3A">>
            [] Head(string) = " " -> <<"%", "20">>
            [] OTHER -> <<Head(string)>>)
         \o quote(Tail(string))

\* urllib.parse.unquote_to_bytes: "%" and two hexadecimal digits are one
\* byte, anything else is itself
RECURSIVE unquote_to_bytes(_)
unquote_to_bytes(string) ==
    IF string = <<>> THEN <<>>
    ELSE IF Head(string) = "%" /\ Len(string) >= 2 /\ string[2] \in HexPairs
    THEN <<[byte |-> string[2]]>> \o unquote_to_bytes(SubSeq(string, 3, Len(string)))
    ELSE <<[char |-> Head(string)]>> \o unquote_to_bytes(Tail(string))

\* the bytes of the characters outside ASCII
Utf8(char) ==
    IF char = Dino THEN <<[byte |-> "F0"], [byte |-> "9F"], [byte |-> "A6"], [byte |-> "96"]>>
    ELSE <<[byte |-> "EF"], [byte |-> "BF"], [byte |-> "BD"]>>

\* how many of the first elements of items are the first bytes of char
RECURSIVE Begun(_, _)
Begun(items, bytes) ==
    IF items = <<>> \/ bytes = <<>> \/ Head(items) # Head(bytes) THEN 0
    ELSE 1 + Begun(Tail(items), Tail(bytes))

\* bytes.decode("utf-8", "replace") of the runs of bytes: a character for
\* its bytes, one replacement for the bytes that only begin a character
\* and for a byte that begins none
RECURSIVE decode(_)
decode(items) ==
    IF items = <<>> THEN <<>>
    ELSE IF "char" \in DOMAIN Head(items) THEN <<Head(items).char>> \o decode(Tail(items))
    ELSE IF \E char \in {Dino, Replacement} : Begun(items, Utf8(char)) > 0
    THEN LET char == CHOOSE ch \in {Dino, Replacement} : Begun(items, Utf8(ch)) > 0
             n == Begun(items, Utf8(char))
         IN <<IF n = Len(Utf8(char)) THEN char ELSE Replacement>>
            \o decode(SubSeq(items, n + 1, Len(items)))
    ELSE (CASE Head(items).byte = "20" -> <<" ">>
            [] Head(items).byte = "23" -> <<"#">>
            [] Head(items).byte = "25" -> <<"%">>
            [] Head(items).byte = "3A" -> <<":">>
            [] Head(items).byte = "3F" -> <<"?">>
            [] OTHER -> <<Replacement>>)
         \o decode(Tail(items))

\* urllib.parse.unquote(string)
unquote(string) == decode(unquote_to_bytes(string))

\* URIRefHelper.to_quoted_url: only quotes the path
to_quoted_url(uri_ref) ==
    urlunsplit([urlsplit(uri_ref) EXCEPT !.path = quote(@)])

\* URIRefHelper.from_quoted_url: only un-quotes the path
from_quoted_url(quoted_url) ==
    urlunsplit([urlsplit(quoted_url) EXCEPT !.path = unquote(@)])

-----------------------------------------------------------------------------
(* The Pod: what it answers to a request and what the request changes.     *)
(* An answer is 0 (the Pod serves the request), a success status other     *)
(* than the usual one, or a status >= 300 (the Pod refuses or fails).      *)

\* SOLIDFS_BASE_URL, with its final "/": the URI of the root.  The model
\* writes every other URI without it
Base == <<"https", ":", "//", "pod", "/">>

\* the URL that the Pod is asked for, as the URI of the resource it stands
\* for: the path without its escapes, and neither query nor fragment
ResourceOf(url) == Tail(unquote(urlsplit(Base \o url).path))

\* the IRI under which the Pod lists a resource: its path with escapes
ListedAs(u) == Base \o quote(u)

SlashTwin(u) == IF EndsWithSlash(u) THEN SubSeq(u, 1, Len(u) - 1) ELSE u \o <<"/">>

ServerCanonical(S, m, u) ==
    CASE m \in {"GET", "HEAD"} -> IF u \in DOMAIN S THEN 200 ELSE 404
      [] m = "PUT" ->
            IF u # RootUri /\ SlashTwin(u) \in DOMAIN S THEN 409
            ELSE IF u \in DOMAIN S THEN 204 ELSE 201
      [] m = "DELETE" ->
            IF u = RootUri THEN 405
            ELSE IF u \notin DOMAIN S THEN 404
            ELSE IF \E v \in DOMAIN S : IsChildUri(u, v) THEN 409
            ELSE 204

ServerStatus(S, m, u, ans) ==
    Bind(ServerCanonical(S, m, u), LAMBDA canonical :
        IF ans = 0 THEN canonical
        ELSE IF ans >= 300 THEN ans
        ELSE IF canonical < 300 THEN ans
        ELSE canonical)

ServerEffect(S, m, u, st, ct, body) ==
    IF st >= 300 THEN S
    ELSE IF m = "PUT"
         THEN Put(S, u, [body |-> IF u = RootUri \/ EndsWithSlash(u) THEN <<>> ELSE body,
                         ct |-> ct])
    ELSE IF m = "DELETE" /\ st # 202 THEN Drop(S, u)
    ELSE S

-----------------------------------------------------------------------------
(* The adapter's state as one value, and the context a handler threads     *)
(* through its calls: the state, the requests made so far and the number   *)
(* of container listings fetched so far.                                   *)

St == [transport |-> transport, contains |-> contains, res |-> res,
       wbuf |-> wbuf, rbuf |-> rbuf, srv |-> srv]

Ctx(s) == [s |-> s, reqs |-> <<>>, nl |-> 0]

\* os.environ.get("SOLIDFS_CLIENT_ID", ""): the mount has no credentials
SOLIDFS_CLIENT_ID == ""

\* Python's None, and what an f-string writes for a value
None == [none |-> TRUE]
formatted(value) == IF value = None THEN "None" ELSE value

\* SolidAuthentication.authenticate_with_client_credentials: no token
\* without a client id, else the access_token of the token endpoint
authenticate_with_client_credentials(client_id) ==
    IF client_id = "" THEN None ELSE "access_token"

\* SolidHTTPX._get_auth_headers / SolidRequest._get_auth_headers
_get_auth_headers(client_id) ==
    [x \in {"Authorization"} |->
        <<"Bearer ", formatted(authenticate_with_client_credentials(client_id))>>]

\* SolidHTTPX.request / SolidRequest.request
request(c, m, url, ans, ct, body) ==
    Bind(ResourceOf(url), LAMBDA u :
    Bind(ServerStatus(c.s.srv, m, u, ans), LAMBDA st :
       [c |-> [c EXCEPT !.s.srv = ServerEffect(c.s.srv, m, u, st, ct, body),
                        !.reqs = Append(@, [m |-> m, u |-> url, st |-> st, ct |-> ct,
                                            headers |-> _get_auth_headers(SOLIDFS_CLIENT_ID)])],
        st |-> st,
        exc |-> IF c.s.transport = "httpx"
                THEN raise_exception_for_failed_requests(st)
                ELSE requests_raise_exception_for_failed_requests(st)]))

\* the smallest number no object of this kind and URI carries
NewId(s, dir, uri) ==
    CHOOSE i \in 1..(Cardinality(DOMAIN s.res) + 1) :
        /\ Key(dir, uri, i) \notin DOMAIN s.res
        /\ \A j \in 1..(i - 1) : Key(dir, uri, j) \in DOMAIN s.res

\* a URI sent as it is
SentAsItIs(uri) == uri

\* the URL of a URI of the hierarchy, and the URI of a URL
quoted(uri) == relative_to(Base, to_quoted_url(Base \o uri))
unquoted(url) == relative_to(Base, from_quoted_url(url))

\* ldp_contained: the objects of ldp:contains in the graph that the Pod
\* serves at the container's quoted URL, when their subject is that URL
ldp_contained(s, ck) ==
    Bind(ResourceOf(quoted(ck.uri)), LAMBDA served :
        IF ListedAs(served) = to_quoted_url(Base \o ck.uri)
        THEN {ListedAs(v) : v \in {w \in DOMAIN s.srv : IsChildUri(served, w)}}
        ELSE {})

\* the objects that a listing of container ck discovers
Discovered(s, ck) ==
    {Key(EndsWithSlash(u), u, NewId(s, EndsWithSlash(u), u)) :
        u \in {unquoted(quoted_resource) : quoted_resource \in ldp_contained(s, ck)}}

DiscoveredAttr(k) ==
    IF k.dir THEN Attr(DefaultContentType, 0, S_IFDIR + Mode755)
    ELSE Attr(DefaultContentType, UNKNOWN_SIZE, S_IFREG + Mode444)

\* a listing that makes the objects it discovered and forgets to keep them
ForgetsContains(s, ck, kids) ==
    [s EXCEPT
        !.res = [k \in DOMAIN s.res \cup kids |->
                        IF k \in DOMAIN s.res THEN s.res[k] ELSE DiscoveredAttr(k)]]

SetContains(s, ck, kids) ==
    [s EXCEPT
        !.contains = [k \in DOMAIN s.contains \cup {ck} \cup {x \in kids : x.dir} |->
                        IF k = ck THEN Populated(kids)
                        ELSE IF k \in DOMAIN s.contains THEN s.contains[k]
                        ELSE Unpopulated],
        !.res = [k \in DOMAIN s.res \cup kids |->
                        IF k \in DOMAIN s.res THEN s.res[k] ELSE DiscoveredAttr(k)]]

\* "https://websocket.inrupt.com/"
WebsocketEndpoint == <<"https", ":", "//", "websocket.inrupt.com", "/">>

\* a set of objects in some order
RECURSIVE InOrder(_)
InOrder(kids) ==
    IF kids = {} THEN <<>>
    ELSE LET k == CHOOSE x \in kids : TRUE IN <<k>> \o InOrder(kids \ {k})

\* SolidWebsocket.set_up_listener_for_notifications for each discovered
\* Resource: a POST of its topic to the endpoint.  The answer, and any
\* exception, is swallowed by the caller and changes nothing
set_up_listener_for_notifications(reqs, kids) ==
    reqs \o [i \in 1..Cardinality(kids) |->
                [m |-> "POST", u |-> WebsocketEndpoint, st |-> 0, ct |-> "application/json",
                 headers |-> _get_auth_headers(SOLIDFS_CLIENT_ID),
                 topic |-> InOrder(kids)[i].uri]]

\* SolidResourceHierarchy.get_contained_resources
get_contained_resources(c, ck, a) ==
    IF c.s.contains[ck].pop THEN [c |-> c, exc |-> NoExc]
    ELSE Bind(request([c EXCEPT !.nl = @ + 1], "GET", quoted(ck.uri),
                      IF c.nl = 0 THEN a.l1 ELSE a.l2, "", <<>>), LAMBDA r :
            IF r.exc.cls \in {"ForbiddenException", "UnauthorizedException"}
            THEN [c |-> [r.c EXCEPT !.s = SetContains(r.c.s, ck, {})], exc |-> NoExc]
            ELSE IF r.exc # NoExc THEN [c |-> r.c, exc |-> r.exc]
            ELSE IF r.st = 200
            THEN Bind(Discovered(r.c.s, ck), LAMBDA items :
                    [c |-> [r.c EXCEPT !.s = SetContains(r.c.s, ck, items),
                                       !.reqs = set_up_listener_for_notifications(@, items)],
                     exc |-> NoExc])
            ELSE [c |-> r.c, exc |-> GenericExc])

\* the element that the iteration of a set of objects meets first: the
\* order is that of the hash table, of which the inputs decide
FirstOf(m, a) ==
    LET byKind == IF \E k \in m : k.dir = a.dirFirst
                  THEN {k \in m : k.dir = a.dirFirst} ELSE m
    IN CHOOSE k \in byKind :
          \A o \in byKind : IF a.newFirst THEN o.id <= k.id ELSE k.id <= o.id

\* the loop of get_resource_by_path over the parts of the path
RECURSIVE Walk(_, _, _, _)
Walk(c, cur, parts, a) ==
    IF parts = <<>> THEN [c |-> c, exc |-> NoExc, key |-> cur]
    ELSE IF ~cur.dir THEN [c |-> c, exc |-> GenericExc, key |-> cur]
    ELSE Bind(get_contained_resources(c, cur, a), LAMBDA g :
            IF g.exc # NoExc THEN [c |-> g.c, exc |-> g.exc, key |-> cur]
            ELSE LET expected_urls == {cur.uri \o Head(parts), cur.uri \o Head(parts) \o <<"/">>}
                     m == {k \in g.c.s.contains[cur].kids : k.uri \in expected_urls}
                 IN IF m = {} THEN [c |-> g.c, exc |-> NotFoundExc, key |-> cur]
                    ELSE Walk(g.c, FirstOf(m, a), Tail(parts), a))

\* SolidResourceHierarchy.get_resource_by_path
get_resource_by_path(c, relative_path, a) ==
    IF relative_path \in {<<"/">>, <<>>} THEN [c |-> c, exc |-> NoExc, key |-> RootKey]
    ELSE Walk(c, RootKey, Split(LStrip(relative_path)), a)

\* SolidResourceHierarchy.get_parent, up to its isinstance check
get_parent(c, path, a) ==
    Bind(get_resource_by_path(c, Join(SubSeq(Split(path), 1, Len(Split(path)) - 1)), a),
         LAMBDA r : IF r.exc = NoExc /\ ~r.key.dir THEN [r EXCEPT !.exc = GenericExc] ELSE r)

\* the objects that the root reaches; the others are garbage
RECURSIVE Reach(_, _)
Reach(s, K) ==
    LET N == K \cup UNION {s.contains[k].kids : k \in {x \in K : x.dir}}
    IN IF N = K THEN K ELSE Reach(s, N)

Collect(s) ==
    LET live == Reach(s, {RootKey})
    IN [s EXCEPT !.res = Keep(s.res, live), !.contains = Keep(s.contains, live)]

-----------------------------------------------------------------------------
(* What a handler gives back: the state it leaves, the requests it made    *)
(* and its return value.  A return value is an integer ("int"), bytes      *)
(* ("bytes"), a string ("str"), None ("none"), the stat of the resource    *)
(* ("stat"), the entries a generator yielded ("gen"), or no value at all   *)
(* because an exception left the handler ("raise").                        *)

Ret(k, n, b, e) == [k |-> k, n |-> n, b |-> b, e |-> e]
RetInt(n) == Ret("int", n, <<>>, {})
RetBytes(b) == Ret("bytes", 0, b, {})
RetStr(str) == Ret("str", 0, <<str>>, {})
RetNone == Ret("none", 0, <<>>, {})
RetStat(attr) == Ret("stat", 0, <<>>, {[size |-> attr.size, mtime |-> attr.mtime, mode |-> attr.mode]})
RetGen(entries) == Ret("gen", 0, <<>>, entries)
RetRaise == Ret("raise", 0, <<>>, {})

Done(c, ret) == [s |-> c.s, reqs |-> c.reqs, ret |-> ret]

\* the methods of the requests, among those made, that change the Pod
IsChange(q) == q.m \in {"PUT", "DELETE"}
Sent(reqs) == [i \in 1..Len(SelectSeq(reqs, IsChange)) |-> SelectSeq(reqs, IsChange)[i].m]

\* the except clauses of customize_return_based_on_exception_type, applied
Fail(c, e) == Done(c, RetInt(customize_return_based_on_exception_type(e)))

\* a handler without that decorator: the exception leaves it
Escape(c, e) == Done(c, RetRaise)

\* SolidPathValidation.validate_path around a handler's result r
validate_path(s, path, r) ==
    IF get_path_validation_result_code(path) # 0
    THEN [s |-> s, reqs |-> <<>>, ret |-> RetInt(0 - get_path_validation_result_code(path))]
    ELSE r

\* Decorators.log_not_supported: chmod, chown, utime
log_not_supported(s, path) ==
    validate_path(s, path, [s |-> s, reqs |-> <<>>, ret |-> RetInt(0)])

\* a create that takes 201 alone for success
CreatedOn201Only(status_code) == status_code = 201

\* the test of create: response.status_code in [201, 204]
created(status_code) == status_code \in {201, 204}

\* SolidFS.create
create(s, path, a) ==
    validate_path(s, path,
        Bind(get_resource_by_path(Ctx(s), RSplitParent(path), a), LAMBDA r :
        LET resource_url == r.key.uri \o RSplitName(path)
            content_type == update_mime_type_from_uri(DefaultContentType, resource_url)
        IN IF r.exc # NoExc THEN Fail(r.c, r.exc)
           ELSE IF ~r.key.dir THEN Done(r.c, RetInt(0 - ENOTDIR))
           ELSE Bind(request(r.c, "PUT", resource_url, a.put, content_type, <<>>), LAMBDA q :
           LET new_resource == Key(FALSE, resource_url, NewId(q.c.s, FALSE, resource_url))
               kids == q.c.s.contains[r.key].kids
           IN IF q.exc # NoExc THEN Fail(q.c, q.exc)
              ELSE IF created(q.st)
              THEN Done([q.c EXCEPT
                           !.s.contains[r.key] = Populated(kids \cup {new_resource}),
                           !.s.res = Put(@, new_resource,
                                         Attr(content_type, 0, S_IFREG + Mode777))],
                        RetInt(0))
              ELSE Done(q.c, RetInt(0 - EBADMSG)))))

\* SolidFS._refresh_resource_stat: the attributes of the resource after it
refreshed(c, key) ==
    [c.s.res[key] EXCEPT
        !.xmime = c.s.srv[key.uri].ct,
        !.ct = c.s.srv[key.uri].ct,
        !.mtime = 1,
        !.mode = S_IRWXU + (IF key.dir THEN S_IFDIR ELSE S_IFREG)]

_refresh_resource_stat(c, key, a) ==
    Bind(request(c, "HEAD", key.uri, a.head, "", <<>>), LAMBDA q :
       IF q.exc.http THEN [c |-> q.c, exc |-> NoExc]
       ELSE IF q.exc # NoExc THEN [c |-> q.c, exc |-> q.exc]
       ELSE [c |-> [q.c EXCEPT !.s.res[key] = refreshed(q.c, key)], exc |-> NoExc])

\* SolidFS.getattr
getattr(s, path, a) ==
    validate_path(s, path,
        Bind(get_resource_by_path(Ctx(s), path, a), LAMBDA r :
        IF r.exc # NoExc THEN Fail(r.c, r.exc)
        ELSE Bind(IF r.c.s.res[r.key].mtime = 0 \/ r.c.s.res[r.key].mode = 0
                  THEN _refresh_resource_stat(r.c, r.key, a)
                  ELSE [c |-> r.c, exc |-> NoExc], LAMBDA f :
             IF f.exc # NoExc THEN Fail(f.c, f.exc)
             ELSE Done(f.c, RetStat(f.c.s.res[r.key])))))

\* len() of the content types
StrLen(str) ==
    CASE str = "text/html" -> 9
      [] str = "text/plain" -> 10
      [] str = "text/turtle" -> 11
      [] str = "application/octet-stream" -> 24
      [] str = "user.mime_type" -> 14
      [] OTHER -> 0

\* SolidFS.getxattr, of the extended attribute user.mime_type and of a
\* name that the resource does not carry
getxattr(s, path, name, size, a) ==
    validate_path(s, path,
        Bind(get_resource_by_path(Ctx(s), path, a), LAMBDA r :
        LET value == IF name = "user.mime_type" THEN r.c.s.res[r.key].xmime ELSE ""
        IN IF r.exc # NoExc THEN Fail(r.c, r.exc)
           ELSE IF value # ""
           THEN (IF size = 0 THEN Done(r.c, RetInt(StrLen(value))) ELSE Done(r.c, RetStr(value)))
           ELSE Done(r.c, RetInt(0))))

\* SolidFS.listxattr
listxattr(s, path, size, a) ==
    validate_path(s, path,
        Bind(get_resource_by_path(Ctx(s), path, a), LAMBDA r :
        LET names == IF r.c.s.res[r.key].xmime # "" THEN {"user.mime_type"} ELSE {}
        IN IF r.exc # NoExc THEN Fail(r.c, r.exc)
           ELSE IF size = 0
           THEN Done(r.c, RetInt(IF names = {} THEN 0 ELSE StrLen("user.mime_type") + 1))
           ELSE Done(r.c, Ret("list", 0, <<>>, names))))

\* the URI of a new container without its final slash
ContainerUriWithoutSlash(parent_uri, name) == parent_uri \o name

\* target_uri of mkdir: parent_container.uri + URIRef(name + "/")
container_uri(parent_uri, name) == parent_uri \o name \o <<"/">>

\* SolidFS.mkdir, which customize_return_based_on_exception_type does not wrap
mkdir(s, path, a) ==
    validate_path(s, path,
        IF EndsWithSlash(path) THEN [s |-> s, reqs |-> <<>>, ret |-> RetInt(0 - EINVAL)]
        ELSE
        Bind(get_resource_by_path(Ctx(s), RSplitParent(path), a), LAMBDA r :
        LET target_uri == container_uri(r.key.uri, RSplitName(path))
        IN IF r.exc # NoExc THEN Escape(r.c, r.exc)
           ELSE IF ~r.key.dir THEN Done(r.c, RetInt(0 - ENOTDIR))
           ELSE Bind(request(r.c, "PUT", quoted(target_uri), a.put, "text/turtle", <<>>), LAMBDA q :
           LET new_container == Key(TRUE, target_uri, NewId(q.c.s, TRUE, target_uri))
               kids == q.c.s.contains[r.key].kids
           IN IF q.exc # NoExc THEN Escape(q.c, q.exc)
              ELSE IF q.st \in {201, 204}
              THEN Done([q.c EXCEPT
                           !.s.contains = Put(Put(@, r.key, Populated(kids \cup {new_container})),
                                              new_container, Unpopulated),
                           !.s.res = Put(@, new_container,
                                         Attr("text/turtle", 0, S_IFDIR + Mode777))],
                        RetInt(0))
              ELSE Done(q.c, RetInt(0 - EBADMSG)))))

O_APPEND == 1024

\* open without the test of the flags
OpenIgnoringFlags(s, path, flags) == validate_path(s, path, Done(Ctx(s), RetNone))

\* SolidFS.open
open(s, path, flags) ==
    validate_path(s, path,
        IF (flags \div O_APPEND) % 2 = 1
        THEN Fail(Ctx(s), GenericExc)
        ELSE Done(Ctx(s), RetNone))

\* SolidFS.read
read(s, path, size, offset, a) ==
    validate_path(s, path,
        Bind(get_resource_by_path(Ctx(s), path, a), LAMBDA r :
        LET uri == r.key.uri
            cached == IF uri \in DOMAIN r.c.s.rbuf THEN r.c.s.rbuf[uri] ELSE <<>>
        IN IF r.exc # NoExc THEN Fail(r.c, r.exc)
           ELSE IF offset # 0 /\ cached # <<>>
           THEN Done(r.c, RetBytes(Slice(cached, offset, offset + size)))
           ELSE Bind(request(r.c, "GET", uri, a.get, "", <<>>), LAMBDA q :
           LET content == q.c.s.srv[uri].body
           IN IF q.exc # NoExc THEN Fail(q.c, q.exc)
              ELSE IF q.st # 200 THEN Fail(q.c, GenericExc)
              ELSE IF offset = 0
              THEN Done([q.c EXCEPT
                           !.s.res[r.key] = [@ EXCEPT !.ct = q.c.s.srv[uri].ct,
                                                      !.xmime = q.c.s.srv[uri].ct,
                                                      !.size = Len(content)],
                           !.s.rbuf = Put(@, uri, content)],
                        RetBytes(Slice(content, offset, offset + size)))
              ELSE Done(q.c, RetBytes(Slice(content, offset, offset + size))))))

\* name.rstrip("/")
RECURSIVE RStrip(_)
RStrip(p) == IF EndsWithSlash(p) THEN RStrip(SubSeq(p, 1, Len(p) - 1)) ELSE p

\* SolidFS.readdir, a generator: nothing of it runs inside the decorators,
\* all of it when the FUSE bridge iterates over what they returned
readdir(s, path, a) ==
    validate_path(s, path,
        Bind(get_resource_by_path(Ctx(s), path, a), LAMBDA r :
        IF r.exc # NoExc THEN Escape(r.c, r.exc)
        ELSE IF ~r.key.dir THEN Done(r.c, RetGen({}))
        ELSE Bind(get_contained_resources(r.c, r.key, a), LAMBDA g :
           IF g.exc # NoExc THEN Escape(g.c, g.exc)
           ELSE Done(g.c, RetGen(
                    {[name |-> <<".">>, type |-> 0, id |-> 0],
                     [name |-> <<"..">>, type |-> 0, id |-> 0]}
                    \cup {[name |-> RStrip(relative_to(r.key.uri, k.uri)),
                           type |-> IF k.dir THEN S_IFDIR ELSE S_IFREG,
                           id |-> k.id] : k \in g.c.s.contains[r.key].kids})))))

\* a write that appends to the buffer whatever the offset
SpliceAppends(buffer, buf, offset) == buffer \o buf

\* a write that drops what the buffer holds after the bytes written
SpliceDropsTail(buffer, buf, offset) == Slice(buffer, 0, offset) \o buf

\* the buffer of write after buffer.extend(bytearray(delta)) and
\* buffer[offset : offset + content_length] = buf
Splice(buffer, buf, offset) ==
    LET target_size == offset + Len(buf)
        extended == IF Len(buffer) < target_size
                    THEN buffer \o Zeros(target_size - Len(buffer))
                    ELSE buffer
    IN SubSeq(extended, 1, offset) \o buf \o SubSeq(extended, target_size + 1, Len(extended))

\* SolidFS.write
write(s, path, buf, offset, a) ==
    validate_path(s, path,
        Bind(get_resource_by_path(Ctx(s), path, a), LAMBDA r :
        LET uri == r.key.uri
            buffer == IF uri \in DOMAIN r.c.s.wbuf THEN r.c.s.wbuf[uri] ELSE <<>>
        IN IF r.exc # NoExc THEN Fail(r.c, r.exc)
           ELSE Done([r.c EXCEPT !.s.wbuf = Put(@, uri, Splice(buffer, buf, offset))],
                     RetInt(Len(buf)))))

\* a flush that never sees the content type change
NeverChanged(previous_content_type, content_type) == FALSE

\* the test of flush: resource.content_type != previous_content_type
content_type_changed(previous_content_type, content_type) ==
    content_type # previous_content_type

\* SolidFS.flush
flush(s, path, a) ==
    validate_path(s, path,
        Bind(get_resource_by_path(Ctx(s), path, a), LAMBDA r :
        LET uri == r.key.uri
            content == r.c.s.wbuf[uri]
            previous_content_type == r.c.s.res[r.key].ct
            content_type == update_mime_type_from_content(0, previous_content_type, content)
            changed == content_type_changed(previous_content_type, content_type)
            expected_put_response_code == IF changed THEN 201 ELSE 204
        IN IF r.exc # NoExc THEN Fail(r.c, r.exc)
           ELSE IF uri \notin DOMAIN r.c.s.wbuf THEN Done(r.c, RetInt(0))
           ELSE Bind([r.c EXCEPT !.s.res[r.key].ct = content_type], LAMBDA c1 :
                Bind(IF changed
                     THEN request(c1, "DELETE", uri, a.del, "", <<>>)
                     ELSE [c |-> c1, st |-> 0, exc |-> NoExc], LAMBDA d :
                IF d.exc # NoExc THEN Fail(d.c, d.exc)
                ELSE Bind(request(d.c, "PUT", uri, a.put, content_type, content), LAMBDA q :
                     IF q.exc # NoExc THEN Fail(q.c, q.exc)
                     ELSE Done([q.c EXCEPT
                                  !.s.res[r.key].size =
                                      IF q.st = expected_put_response_code
                                      THEN Len(content) ELSE @,
                                  !.s.wbuf = Drop(@, uri)],
                               RetInt(0)))))))

\* SolidFS.unlink
unlink(s, path, a) ==
    validate_path(s, path,
        Bind(get_resource_by_path(Ctx(s), path, a), LAMBDA r :
        IF r.exc # NoExc THEN Fail(r.c, r.exc)
        ELSE Bind(request(r.c, "DELETE", r.key.uri, a.del, "", <<>>), LAMBDA q :
        IF q.exc # NoExc THEN Fail(q.c, q.exc)
        ELSE IF q.st \in {200, 204}
        THEN Bind(get_parent(q.c, path, a), LAMBDA parent :
             LET kids == parent.c.s.contains[parent.key].kids
             IN IF parent.exc # NoExc THEN Fail(parent.c, parent.exc)
                ELSE IF ~parent.c.s.contains[parent.key].pop THEN Done(parent.c, RetInt(0))
                ELSE IF r.key \notin kids THEN Fail(parent.c, GenericExc)
                ELSE Done([parent.c EXCEPT !.s =
                              Collect([@ EXCEPT !.contains[parent.key] =
                                                    Populated(kids \ {r.key})])],
                          RetInt(0)))
        ELSE Done(q.c, RetInt(0 - EBADMSG)))))

\* SolidFS.rmdir
rmdir(s, path, a) == validate_path(s, path, unlink(s, path, a))

\* the end of truncate: write(path, new_content, 0) and what it returns
truncate_write(s, reqs, path, new_content, a) ==
    Bind(write(s, path, new_content, 0, a), LAMBDA write_result :
        [s |-> write_result.s, reqs |-> reqs \o write_result.reqs,
         ret |-> IF write_result.ret.n < 0 THEN write_result.ret ELSE RetInt(0)])

\* SolidFS.truncate
truncate(s, path, size, a) ==
    validate_path(s, path,
        IF EndsWithSlash(path) THEN [s |-> s, reqs |-> <<>>, ret |-> RetInt(0 - EINVAL)]
        ELSE IF size < 0 THEN [s |-> s, reqs |-> <<>>, ret |-> RetInt(0 - EINVAL)]
        ELSE
        Bind(get_resource_by_path(Ctx(s), path, a), LAMBDA r :
        LET uri == r.key.uri
            in_flight == IF uri \in DOMAIN r.c.s.wbuf THEN r.c.s.wbuf[uri] ELSE <<>>
        IN IF r.exc # NoExc THEN Fail(r.c, r.exc)
           ELSE IF in_flight # <<>>
           THEN Done([r.c EXCEPT !.s.wbuf[uri] = Slice(in_flight, 0, size),
                                 !.s.res[r.key].size = size],
                     RetInt(0))
           ELSE IF size # 0
           THEN Bind(read(r.c.s, path, size + 1, 0, a), LAMBDA read_result :
                LET reqs == r.c.reqs \o read_result.reqs
                    content == read_result.ret.b
                IN IF read_result.ret.k = "int"
                   THEN [s |-> read_result.s, reqs |-> reqs,
                         ret |-> IF read_result.ret.n < 0 THEN read_result.ret
                                 ELSE RetInt(0 - EBADMSG)]
                   ELSE IF Len(content) < size
                   THEN [s |-> read_result.s, reqs |-> reqs, ret |-> RetInt(0 - EINVAL)]
                   ELSE IF size # Len(content)
                   THEN truncate_write([read_result.s EXCEPT !.res[r.key].size = size],
                                       reqs, path, Slice(content, 0, size), a)
                   ELSE [s |-> read_result.s, reqs |-> reqs, ret |-> RetInt(0)])
           ELSE truncate_write([r.c.s EXCEPT !.res[r.key].size = size],
                               r.c.reqs, path, <<>>, a)))

\* a rename that takes no step for failed
NeverFailed(response) == FALSE

\* the tests of rename on what a step returned: response < 0
failed(response) == response.n < 0

\* SolidFS.rename
rename(s, source, target, a) ==
    IF get_path_validation_result_code(source) # 0
    THEN [s |-> s, reqs |-> <<>>, ret |-> RetInt(0 - get_path_validation_result_code(source))]
    ELSE IF get_path_validation_result_code(target) # 0
    THEN [s |-> s, reqs |-> <<>>, ret |-> RetInt(0 - get_path_validation_result_code(target))]
    ELSE
    Bind(get_resource_by_path(Ctx(s), source, a), LAMBDA r :
    IF r.exc # NoExc THEN Fail(r.c, r.exc)
    ELSE Bind(read(r.c.s, source, r.c.s.res[r.key].size, 0, a), LAMBDA read_response :
    LET reqs1 == r.c.reqs \o read_response.reqs
    IN IF read_response.ret.k = "int"
       THEN [s |-> read_response.s, reqs |-> reqs1,
             ret |-> IF read_response.ret.n < 0 THEN read_response.ret
                     ELSE RetInt(0 - EBADMSG)]
       ELSE Bind(create(read_response.s, target, a), LAMBDA create_response :
       LET reqs2 == reqs1 \o create_response.reqs
       IN IF failed(create_response.ret)
          THEN [s |-> create_response.s, reqs |-> reqs2, ret |-> create_response.ret]
          ELSE Bind(write(create_response.s, target, read_response.ret.b, 0, a),
                    LAMBDA write_response :
          LET reqs3 == reqs2 \o write_response.reqs
          IN IF failed(write_response.ret)
             THEN [s |-> write_response.s, reqs |-> reqs3, ret |-> write_response.ret]
             ELSE Bind(unlink(write_response.s, source, a), LAMBDA unlink_response :
                  [s |-> unlink_response.s, reqs |-> reqs3 \o unlink_response.reqs,
                   ret |-> IF failed(unlink_response.ret) THEN unlink_response.ret
                           ELSE RetInt(0)])))))

-----------------------------------------------------------------------------
(* The inputs of the model *)

MaxLen == 1     \* the longest buffer that the behaviours write
MaxDup == 2     \* the most objects of one kind with one URI
MaxSteps == 3   \* the callbacks of one behaviour

ValidPaths ==
    {<<"/">>, <<"/", "x">>, <<"/", "a.ttl">>, <<"/", "d">>, <<"/", "d", "/">>,
     <<"/", "d", "/", "x">>, <<"/", Long1023>>}

InvalidPaths == {NotAString, <<"x">>, <<"/", Long1024>>, <<"/", Sentinel>>, <<Sentinel>>}

Paths == ValidPaths \cup InvalidPaths

Bufs == {<<>>, <<"p">>, <<"h">>, <<"p", "p">>, <<"h", "p">>, <<"p", "h">>}

\* every class of status that the code tells apart
AllStatuses == {0, 200, 201, 202, 204, 301, 400, 401, 403, 404, 406, 409, 500, 503, 600}

\* the answers of the Pod to the requests of one callback (0: the answer of
\* a Pod that works), and the order in which the iteration of a set meets
\* its elements
Answers(L1, L2, G, P, D, H, DF, NF) ==
    [l1 : L1, l2 : L2, get : G, put : P, del : D, head : H, dirFirst : DF, newFirst : NF]

NoFault ==
    [l1 |-> 0, l2 |-> 0, get |-> 0, put |-> 0, del |-> 0, head |-> 0,
     dirFirst |-> FALSE, newFirst |-> FALSE]

\* the paths and answers that the behaviours draw from: one request of a
\* callback at most is answered otherwise than a working Pod would
TakenPaths ==
    {<<"/">>, <<"/", "x">>, <<"/", "a.ttl">>, <<"/", "d">>, <<"/", "d", "/", "x">>,
     <<"/", Long1024>>}

Fault(f, V) == {[NoFault EXCEPT ![f] = v] : v \in V}

ListFaults == IF \E k \in DOMAIN contains : ~contains[k].pop THEN Fault("l1", {403, 500}) ELSE {}

Orders(A) ==
    IF \E k \in DOMAIN res : k.id > 1
    THEN {[a EXCEPT !.dirFirst = o, !.newFirst = o] : a \in A, o \in BOOLEAN}
    ELSE A

In(p, F) == IF p \in InvalidPaths THEN {NoFault} ELSE Orders({NoFault} \cup ListFaults \cup F)

\* the paths that mkdir is called with: a name outside ASCII is one
MkdirPaths == TakenPaths \cup {<<"/", Dino>>}

RenamePairs ==
    {<<<<"/", "d", "/", "x">>, <<"/", "x">>>>, <<<<"/", "x">>, <<"/", "a.ttl">>>>,
     <<<<"/", "d">>, <<"/", "x">>>>, <<<<"/", "x">>, <<"/", Sentinel>>>>}

-----------------------------------------------------------------------------
(* The state machine *)

InitialPod ==
    Put(Put(Put(Empty, RootUri, [body |-> <<>>, ct |-> "text/turtle"]),
            <<"d", "/">>, [body |-> <<>>, ct |-> "text/turtle"]),
        <<"d", "/", "x">>, [body |-> <<"p", "p">>, ct |-> "text/plain"])

\* SolidAuthentication.__init__: no token is cached (None; no expiry is the
\* empty sequence, an expiry a sequence of one time).  The clock, and what
\* the last call of authenticate_with_client_credentials did
NoToken ==
    [cached_token_value |-> None, cached_token_expiry |-> <<>>, now |-> 0,
     posted |-> FALSE, status_code |-> 0, expires_in |-> 0, returned |-> None]

\* no URIRef is under conversion
NotConverting ==
    [pc |-> "none", scheme |-> "", path |-> <<>>, rest |-> <<>>,
     uri_ref |-> <<>>, quoted_url |-> <<>>, result |-> <<>>]

Init ==
    /\ transport \in {"requests", "httpx"}
    /\ contains = Put(Empty, RootKey, Unpopulated)
    /\ res = Put(Empty, RootKey, Attr(DefaultContentType, 0, S_IFDIR + Mode777))
    /\ wbuf = Empty
    /\ rbuf = Empty
    /\ srv = InitialPod
    /\ last = [op |-> "init", k |-> "none", n |-> 0, sent |-> <<>>]
    /\ steps = 0
    /\ conv = NotConverting
    /\ root = RootKey
    /\ thr = <<>>
    /\ auth = NoToken

WithinBounds(s) ==
    /\ \A k \in DOMAIN s.res : k.id <= MaxDup
    /\ \A u \in DOMAIN s.wbuf : Len(s.wbuf[u]) <= MaxLen

Apply(op, r) ==
    /\ steps < MaxSteps
    /\ WithinBounds(r.s)
    /\ transport' = r.s.transport
    /\ contains' = r.s.contains
    /\ res' = r.s.res
    /\ wbuf' = r.s.wbuf
    /\ rbuf' = r.s.rbuf
    /\ srv' = r.s.srv
    /\ last' = [op |-> op, k |-> r.ret.k, n |-> r.ret.n, sent |-> Sent(r.reqs)]
    /\ steps' = steps + 1
    /\ conv' = conv
    /\ root' = root
    /\ thr' = thr
    /\ auth' = auth

Chmod(p) == Apply("chmod", log_not_supported(St, p))
Create(p, a) == Apply("create", create(St, p, a))
Getattr(p, a) == Apply("getattr", getattr(St, p, a))
Getxattr(p, n, size, a) == Apply("getxattr", getxattr(St, p, n, size, a))
Listxattr(p, size, a) == Apply("listxattr", listxattr(St, p, size, a))
Mkdir(p, a) == Apply("mkdir", mkdir(St, p, a))
Open(p, flags) == Apply("open", open(St, p, flags))
Read(p, size, offset, a) == Apply("read", read(St, p, size, offset, a))
Readdir(p, a) == Apply("readdir", readdir(St, p, a))
Flush(p, a) == Apply("flush", flush(St, p, a))
Rename(p, q, a) == Apply("rename", rename(St, p, q, a))
Rmdir(p, a) == Apply("rmdir", rmdir(St, p, a))
Truncate(p, size, a) == Apply("truncate", truncate(St, p, size, a))
Unlink(p, a) == Apply("unlink", unlink(St, p, a))
Write(p, buf, offset, a) == Apply("write", write(St, p, buf, offset, a))

Next ==
    \/ \E p \in TakenPaths : Chmod(p)
    \/ \E p \in TakenPaths : \E a \in In(p, Fault("put", {500})) : Create(p, a)
    \/ \E p \in TakenPaths : \E a \in In(p, Fault("head", {403})) : Getattr(p, a)
    \/ \E p \in TakenPaths, n \in {"user.mime_type", "user.none"}, size \in {0} :
          \E a \in In(p, {}) : Getxattr(p, n, size, a)
    \/ \E p \in TakenPaths, size \in {0} : \E a \in In(p, {}) : Listxattr(p, size, a)
    \/ \E p \in MkdirPaths : \E a \in In(p, Fault("put", {500})) : Mkdir(p, a)
    \/ \E p \in TakenPaths, flags \in {0, O_APPEND + 1} : Open(p, flags)
    \/ \E p \in TakenPaths, size \in {2}, offset \in {0} :
          \E a \in In(p, Fault("get", {401})) : Read(p, size, offset, a)
    \/ \E p \in TakenPaths : \E a \in In(p, {}) : Readdir(p, a)
    \/ \E p \in TakenPaths :
          \E a \in In(p, Fault("put", {200, 500}) \cup Fault("del", {202, 500})) : Flush(p, a)
    \/ \E pq \in RenamePairs :
          \E a \in In(pq[1], Fault("get", {500}) \cup Fault("put", {500}) \cup Fault("del", {500})) :
             Rename(pq[1], pq[2], a)
    \/ \E p \in TakenPaths : \E a \in In(p, Fault("del", {202, 500})) : Rmdir(p, a)
    \/ \E p \in TakenPaths, size \in {0 - 1, 0, 1} :
          \E a \in In(p, Fault("get", {500})) : Truncate(p, size, a)
    \/ \E p \in TakenPaths : \E a \in In(p, Fault("del", {202, 500})) : Unlink(p, a)
    \/ \E p \in TakenPaths, buf \in {b \in Bufs : Len(b) = 1}, offset \in {0} :
          \E a \in In(p, {}) : Write(p, buf, offset, a)

Spec == Init /\ [][Next]_vars

-----------------------------------------------------------------------------
(* The conversions of URIRefHelper on their own: a URIRef written as      *)
(* scheme, authority, path and what follows the path is quoted, and the    *)
(* quoted URL is un-quoted.                                                *)

MaxPath == 2    \* the most characters of a path after its first "/"

PathChars == {"x", "/", " ", "%", "25", Dino}

UriPaths ==
    {<<"/">> \o s : s \in UNION {[1..n -> PathChars] : n \in 0..MaxPath}}

\* what follows the path: nothing, a query, a "?" or a "#" with nothing after
UriRests == {<<>>, <<"?", "x">>, <<"?", Dino>>, <<"?">>, <<"#">>}

UriRef(scheme, path, rest) == <<scheme, ":", "//", "pod">> \o path \o rest

InitUrl ==
    /\ transport = "requests"
    /\ contains = Put(Empty, RootKey, Unpopulated)
    /\ res = Put(Empty, RootKey, Attr(DefaultContentType, 0, S_IFDIR + Mode777))
    /\ wbuf = Empty
    /\ rbuf = Empty
    /\ srv = InitialPod
    /\ last = [op |-> "init", k |-> "none", n |-> 0, sent |-> <<>>]
    /\ steps = 0
    /\ root = RootKey
    /\ thr = <<>>
    /\ auth = NoToken
    /\ \E scheme \in Schemes, path \in UriPaths, rest \in UriRests :
          conv = [NotConverting EXCEPT !.pc = "uri_ref", !.scheme = scheme, !.path = path,
                                       !.rest = rest, !.uri_ref = UriRef(scheme, path, rest)]

ToQuotedUrl ==
    /\ conv.pc = "uri_ref"
    /\ conv' = [conv EXCEPT !.pc = "quoted_url", !.quoted_url = to_quoted_url(conv.uri_ref)]
    /\ UNCHANGED <<transport, contains, res, wbuf, rbuf, srv, last, steps, root, thr, auth>>

FromQuotedUrl ==
    /\ conv.pc = "quoted_url"
    /\ conv' = [conv EXCEPT !.pc = "result", !.result = from_quoted_url(conv.quoted_url)]
    /\ UNCHANGED <<transport, contains, res, wbuf, rbuf, srv, last, steps, root, thr, auth>>

NextUrl == ToQuotedUrl \/ FromQuotedUrl

SpecUrl == InitUrl /\ [][NextUrl]_vars

-----------------------------------------------------------------------------
(* The first callbacks of a mount, called by the worker threads of the     *)
(* FUSE bridge at once.  Each thread resolves "/" with _get_root and lists *)
(* the Container it got; a step is what a thread does between two points   *)
(* at which another thread can run.  Nothing of the code takes a lock.     *)

MaxThreads == 3     \* the worker threads that are inside a callback at once

\* no thread has called _get_root yet; SOLIDFS_BASE_URL is set with its
\* final "/" or without it
InitRoot ==
    /\ transport \in {"requests", "httpx"}
    /\ contains = Empty
    /\ res = Empty
    /\ wbuf = Empty
    /\ rbuf = Empty
    /\ srv = InitialPod
    /\ last = [op |-> "init", k |-> "none", n |-> 0, sent |-> <<>>]
    /\ steps = 0
    /\ conv = NotConverting
    /\ root = None
    /\ auth = NoToken
    /\ \E base_url \in {Base, SubSeq(Base, 1, Len(Base) - 1)} :
          thr = [t \in 1..MaxThreads |->
                    [pc |-> "_get_root", base_url |-> base_url, got |-> None]]

\* if self.root is None:
RootIsNone(t) ==
    /\ thr[t].pc = "_get_root"
    /\ thr' = [thr EXCEPT ![t].pc = IF root = None THEN "establish" ELSE "return"]
    /\ UNCHANGED <<transport, contains, res, wbuf, rbuf, srv, last, steps, conv, root, auth>>

\* base_url += "/" when it does not end with one, and
\* self.root = Container(URIRef(base_url), ResourceStat(mode=S_IFDIR | 0o777))
EstablishRoot(t) ==
    /\ thr[t].pc = "establish"
    /\ LET base_url == IF EndsWithSlash(thr[t].base_url) THEN thr[t].base_url
                       ELSE thr[t].base_url \o <<"/">>
           uri == relative_to(Base, base_url)
           container == Key(TRUE, uri, NewId(St, TRUE, uri))
       IN /\ root' = container
          /\ res' = Put(res, container, Attr(DefaultContentType, 0, S_IFDIR + Mode777))
          /\ contains' = Put(contains, container, Unpopulated)
    /\ thr' = [thr EXCEPT ![t].pc = "return"]
    /\ UNCHANGED <<transport, wbuf, rbuf, srv, last, steps, conv, auth>>

\* return self.root
ReturnRoot(t) ==
    /\ thr[t].pc = "return"
    /\ thr' = [thr EXCEPT ![t].pc = "resolved", ![t].got = root]
    /\ UNCHANGED <<transport, contains, res, wbuf, rbuf, srv, last, steps, conv, root, auth>>

\* get_contained_resources of the Container that _get_root returned
ListRoot(t) ==
    /\ thr[t].pc = "resolved"
    /\ LET g == get_contained_resources(Ctx(St), thr[t].got, NoFault)
       IN /\ contains' = g.c.s.contains
          /\ res' = g.c.s.res
          /\ srv' = g.c.s.srv
    /\ thr' = [thr EXCEPT ![t].pc = "listed"]
    /\ UNCHANGED <<transport, wbuf, rbuf, last, steps, conv, root, auth>>

NextRoot ==
    \/ \E t \in DOMAIN thr : RootIsNone(t)
    \/ \E t \in DOMAIN thr : EstablishRoot(t)
    \/ \E t \in DOMAIN thr : ReturnRoot(t)
    \/ \E t \in DOMAIN thr : ListRoot(t)

SpecRoot == InitRoot /\ [][NextRoot]_vars

-----------------------------------------------------------------------------
(* write and flush of one file, called by worker threads at once.  Threads *)
(* 1 and 3 each write one byte, at offsets 0 and 1; threads 2 and 4 flush. *)
(* The buffer of the file is one bytearray that resource_write_buffer      *)
(* holds: a flush that has read it from the dict holds the same object     *)
(* (held) until another flush deletes the entry, and from then on an       *)
(* object that no write reaches any more (content).                        *)

InitBuffer ==
    /\ transport \in {"requests", "httpx"}
    /\ contains = Put(Empty, RootKey, Unpopulated)
    /\ res = Put(Empty, RootKey, Attr(DefaultContentType, 0, S_IFDIR + Mode777))
    /\ wbuf = Empty
    /\ rbuf = Empty
    /\ srv = InitialPod
    /\ last = [op |-> "init", k |-> "none", n |-> 0, sent |-> <<>>]
    /\ steps = 0
    /\ conv = NotConverting
    /\ root = RootKey
    /\ auth = NoToken
    /\ thr = [t \in 1..(MaxThreads + 1) |->
                [op |-> IF t % 2 = 1 THEN "write" ELSE "flush", pc |-> "called",
                 path |-> <<"/", "d", "/", "x">>,
                 buf |-> IF t = 1 THEN <<"p">> ELSE <<"h">>, offset |-> (t - 1) \div 2,
                 key |-> None, held |-> FALSE, content |-> <<>>, content_length |-> 0,
                 content_type |-> "", expected_put_response_code |-> 204,
                 sent |-> FALSE, body |-> <<>>, status_code |-> 0, ret |-> 0]]

\* SolidFS.write, from its call to its return
ThreadWrite(t) ==
    /\ thr[t].op = "write" /\ thr[t].pc = "called"
    /\ LET w == write(St, thr[t].path, thr[t].buf, thr[t].offset, NoFault)
       IN /\ contains' = w.s.contains
          /\ res' = w.s.res
          /\ wbuf' = w.s.wbuf
          /\ thr' = [thr EXCEPT ![t].pc = "returned", ![t].ret = w.ret.n]
    /\ UNCHANGED <<transport, rbuf, srv, last, steps, conv, root, auth>>

\* SolidFS.flush up to the test of the content type: the resource, the
\* buffer that the dict holds for it, the content type of its bytes
FlushContent(t) ==
    /\ thr[t].op = "flush" /\ thr[t].pc = "called"
    /\ LET r == get_resource_by_path(Ctx(St), thr[t].path, NoFault)
           uri == r.key.uri
           content == r.c.s.wbuf[uri]
           previous_content_type == r.c.s.res[r.key].ct
           content_type == update_mime_type_from_content(0, previous_content_type, content)
           changed == content_type_changed(previous_content_type, content_type)
       IN /\ contains' = r.c.s.contains
          /\ IF r.exc # NoExc
             THEN /\ res' = r.c.s.res
                  /\ thr' = [thr EXCEPT ![t].pc = "returned",
                                        ![t].ret = customize_return_based_on_exception_type(r.exc)]
             ELSE IF uri \notin DOMAIN r.c.s.wbuf
             THEN /\ res' = r.c.s.res
                  /\ thr' = [thr EXCEPT ![t].pc = "returned", ![t].ret = 0]
             ELSE /\ res' = [r.c.s.res EXCEPT ![r.key].ct = content_type]
                  /\ thr' = [thr EXCEPT ![t].pc = IF changed THEN "DELETE" ELSE "PUT",
                                        ![t].key = r.key, ![t].held = TRUE,
                                        ![t].content_length = Len(content),
                                        ![t].content_type = content_type,
                                        ![t].expected_put_response_code =
                                            IF changed THEN 201 ELSE 204]
    /\ UNCHANGED <<transport, wbuf, rbuf, srv, last, steps, conv, root, auth>>

\* response = self.requestor.request("DELETE", resource.uri.toPython())
FlushDelete(t) ==
    /\ thr[t].pc = "DELETE"
    /\ LET d == request(Ctx(St), "DELETE", thr[t].key.uri, 0, "", <<>>)
       IN /\ srv' = d.c.s.srv
          /\ thr' = IF d.exc # NoExc
                    THEN [thr EXCEPT ![t].pc = "returned",
                                     ![t].ret = customize_return_based_on_exception_type(d.exc)]
                    ELSE [thr EXCEPT ![t].pc = "PUT"]
    /\ UNCHANGED <<transport, contains, res, wbuf, rbuf, last, steps, conv, root, auth>>

\* response = self.requestor.request("PUT", resource.uri.toPython(), headers, content)
\* as far as the bytes of content are sent
FlushPut(t) ==
    /\ thr[t].pc = "PUT"
    /\ LET content == IF thr[t].held THEN wbuf[thr[t].key.uri] ELSE thr[t].content
           q == request(Ctx(St), "PUT", thr[t].key.uri, 0, thr[t].content_type, content)
       IN /\ srv' = q.c.s.srv
          /\ thr' = IF q.exc # NoExc
                    THEN [thr EXCEPT ![t].pc = "returned", ![t].sent = TRUE, ![t].body = content,
                                     ![t].ret = customize_return_based_on_exception_type(q.exc)]
                    ELSE [thr EXCEPT ![t].pc = "response", ![t].sent = TRUE, ![t].body = content,
                                     ![t].status_code = q.st]
    /\ UNCHANGED <<transport, contains, res, wbuf, rbuf, last, steps, conv, root, auth>>

\* the response of the PUT has come: resource.stat.st_size = content_length
\* when the status is the expected one, del self.resource_write_buffer[
\* resource.uri], which raises KeyError without the entry, and return 0
FlushDel(t) ==
    /\ thr[t].pc = "response"
    /\ LET uri == thr[t].key.uri
       IN IF uri \in DOMAIN wbuf
          THEN /\ wbuf' = Drop(wbuf, uri)
               /\ thr' = [u \in DOMAIN thr |->
                            IF u = t THEN [thr[u] EXCEPT !.pc = "returned", !.ret = 0]
                            ELSE IF thr[u].held /\ thr[u].pc # "returned"
                            THEN [thr[u] EXCEPT !.held = FALSE, !.content = wbuf[uri]]
                            ELSE thr[u]]
          ELSE /\ wbuf' = wbuf
               /\ thr' = [thr EXCEPT ![t].pc = "returned",
                                     ![t].ret = customize_return_based_on_exception_type(GenericExc)]
    /\ res' = IF thr[t].status_code = thr[t].expected_put_response_code
              THEN [res EXCEPT ![thr[t].key].size = thr[t].content_length]
              ELSE res
    /\ UNCHANGED <<transport, contains, rbuf, srv, last, steps, conv, root, auth>>

NextBuffer ==
    \/ \E t \in DOMAIN thr : ThreadWrite(t)
    \/ \E t \in DOMAIN thr : FlushContent(t)
    \/ \E t \in DOMAIN thr : FlushDelete(t)
    \/ \E t \in DOMAIN thr : FlushPut(t)
    \/ \E t \in DOMAIN thr : FlushDel(t)

SpecBuffer == InitBuffer /\ [][NextBuffer]_vars

-----------------------------------------------------------------------------
(* The token cache of SolidAuthentication on its own, with credentials in  *)
(* the environment: authenticate_with_client_credentials is called again   *)
(* and again while the clock, in seconds, goes on.                        *)

MaxNow == 8     \* the clock stops here

InitToken ==
    /\ transport = "requests"
    /\ contains = Put(Empty, RootKey, Unpopulated)
    /\ res = Put(Empty, RootKey, Attr(DefaultContentType, 0, S_IFDIR + Mode777))
    /\ wbuf = Empty
    /\ rbuf = Empty
    /\ srv = InitialPod
    /\ last = [op |-> "init", k |-> "none", n |-> 0, sent |-> <<>>]
    /\ steps = 0
    /\ conv = NotConverting
    /\ root = RootKey
    /\ thr = <<>>
    /\ auth = NoToken

\* SolidAuthentication.authenticate_with_client_credentials, called dt
\* seconds after the call before; the token endpoint, if asked, answers
\* with status_code and, on 200, a new access_token and expires_in
AuthenticateWithClientCredentials(dt, status_code, expires_in) ==
    /\ auth.now + dt <= MaxNow
    /\ LET time == auth.now + dt
           time_before_request == time
           asked == [auth EXCEPT !.now = time, !.posted = TRUE,
                                 !.status_code = status_code, !.expires_in = expires_in]
       IN auth' =
            IF auth.cached_token_expiry = <<>> \/ time > auth.cached_token_expiry[1]
            THEN IF status_code = 200
                 THEN [asked EXCEPT
                          !.cached_token_expiry = <<time_before_request + expires_in>>,
                          !.cached_token_value = [access_token |-> time],
                          !.returned = [access_token |-> time]]
                 ELSE [asked EXCEPT !.returned = [raised |-> status_code]]
            ELSE [auth EXCEPT !.now = time, !.posted = FALSE,
                              !.returned = auth.cached_token_value]
    /\ UNCHANGED <<transport, contains, res, wbuf, rbuf, srv, last, steps, conv, root, thr>>

NextToken ==
    \E dt \in 0..2, status_code \in {200, 401, 500}, expires_in \in {1, 2} :
        AuthenticateWithClientCredentials(dt, status_code, expires_in)

SpecToken == InitToken /\ [][NextToken]_vars

-----------------------------------------------------------------------------
(* The claims.  A claim about what a handler does is stated of the handler *)
(* applied to the state reached, for inputs wider than those the           *)
(* behaviours take; the costly ones are stated of the states from which a  *)
(* behaviour goes on.                                                      *)

Running == steps < MaxSteps

\* a Pod that serves every request, whatever success status it answers
\* with, and either order of iteration
ServingAnswers ==
    {[NoFault EXCEPT !.put = x, !.del = y, !.dirFirst = o, !.newFirst = o] :
        x \in {0, 200}, y \in {0, 202}, o \in BOOLEAN}

\* C1: for every path p that resolves to a file and every byte string b,
\* write(p, b, 0), then flush(p), then read(p, len(b), 0), each succeeding,
\* returns exactly b
C1_WriteFlushRead ==
    Running =>
    \A p \in ValidPaths, b \in Bufs, a \in ServingAnswers :
        LET g == get_resource_by_path(Ctx(St), p, a)
            w == write(St, p, b, 0, a)
            f == flush(w.s, p, a)
            r == read(f.s, p, Len(b), 0, a)
        IN (/\ g.exc = NoExc
            /\ ~g.key.dir
            /\ w.ret.k = "int" /\ w.ret.n = Len(b)
            /\ f.ret.k = "int" /\ f.ret.n = 0
            /\ r.ret.k = "bytes")
           => r.ret.b = b

\* a write of "h" was flushed to the Pod and read back from it
C1_Witness ==
    /\ last.op = "read"
    /\ last.k = "bytes"
    /\ \E u \in DOMAIN srv \cap DOMAIN rbuf :
          /\ srv[u].body = <<"h">>
          /\ rbuf[u] = <<"h">>
          /\ u \notin DOMAIN wbuf

\* the path of the parent of a path, for readdir
ParentPath(p) == IF RSplitParent(p) = <<>> THEN <<"/">> ELSE RSplitParent(p)

\* the answers of a Pod that works, in either order of iteration
WorkingAnswers == {[NoFault EXCEPT !.dirFirst = o, !.newFirst = o] : o \in BOOLEAN}

\* C2: once unlink(p) or rmdir(p) returns 0, readdir of p's parent yields
\* no entry named p any more and p resolves no more
C2_UnlinkRemovesFromListing ==
    \A p \in ValidPaths \ {<<"/">>}, a \in WorkingAnswers :
        LET u == unlink(St, p, a)
            d == rmdir(St, p, a)
        IN /\ (u.ret.k = "int" /\ u.ret.n = 0)
                => /\ get_resource_by_path(Ctx(u.s), p, a).exc # NoExc
                   /\ \A e \in readdir(u.s, ParentPath(p), a).ret.e :
                          e.name # RSplitName(p)
           /\ (d.ret.k = "int" /\ d.ret.n = 0)
                => /\ get_resource_by_path(Ctx(d.s), p, a).exc # NoExc
                   /\ \A e \in readdir(d.s, ParentPath(p), a).ret.e :
                          e.name # RSplitName(p)

\* the handler's result r holds a request with method m answered st
Answered(r, m, st) == \E i \in 1..Len(r.reqs) : r.reqs[i].m = m /\ r.reqs[i].st = st

\* C3: when the DELETE of unlink, the GET of read, the PUT of create or the
\* PUT or DELETE of flush is answered 401 or 403, the operation returns
\* -EACCES
C3_ForbiddenIsEACCES ==
    \A p \in ValidPaths, st \in {401, 403} :
        LET u == unlink(St, p, [NoFault EXCEPT !.del = st])
            r == read(St, p, 1, 0, [NoFault EXCEPT !.get = st])
            c == create(St, p, [NoFault EXCEPT !.put = st])
            f == flush(St, p, [NoFault EXCEPT !.put = st])
            g == flush(St, p, [NoFault EXCEPT !.del = st])
        IN /\ Answered(u, "DELETE", st) => u.ret = RetInt(0 - EACCES)
           /\ Answered(r, "GET", st) => r.ret = RetInt(0 - EACCES)
           /\ Answered(c, "PUT", st) => c.ret = RetInt(0 - EACCES)
           /\ Answered(f, "PUT", st) => f.ret = RetInt(0 - EACCES)
           /\ Answered(g, "DELETE", st) => g.ret = RetInt(0 - EACCES)

\* the sizes that truncate is called with
Sizes == {0 - 1, 0, 1, 2, 3}

\* the answers to a listing that leave a segment of the path unknown
ListingAnswers == {[NoFault EXCEPT !.l1 = x, !.l2 = y] : x \in {0, 403}, y \in {0, 401}}

\* what getattr, read, write, flush and unlink return for path p under
\* answers a
ResolvingReturns(p, a) ==
    {getattr(St, p, a).ret, flush(St, p, a).ret, unlink(St, p, a).ret}
    \cup {read(St, p, size, offset, a).ret : size \in {0, 1}, offset \in {0, 1}}
    \cup {write(St, p, b, offset, a).ret : b \in {<<>>, <<"p">>}, offset \in {0, 1}}

\* C4 as claimed: getattr, read, write, flush, truncate and unlink on a
\* valid path with a segment that is not among the children of the
\* container reached so far return -ENOENT
C4_UnknownPathENOENT ==
    \A p \in ValidPaths, a \in ListingAnswers :
        get_resource_by_path(Ctx(St), p, a).exc = NotFoundExc
        => /\ ResolvingReturns(p, a) = {RetInt(0 - ENOENT)}
           /\ \A size \in Sizes : truncate(St, p, size, a).ret = RetInt(0 - ENOENT)

\* C4 as the code has it: truncate first rejects a path that ends in "/"
\* and a negative size with -EINVAL, without resolving the path; but for
\* that, the six operations return -ENOENT for such a path
C4_UnknownPathENOENTButTruncateArguments ==
    Running => \A p \in ValidPaths, a \in ListingAnswers :
        get_resource_by_path(Ctx(St), p, a).exc = NotFoundExc
        => /\ ResolvingReturns(p, a) = {RetInt(0 - ENOENT)}
           /\ \A size \in Sizes :
                LET r == truncate(St, p, size, a)
                IN IF EndsWithSlash(p) \/ size < 0
                   THEN r.ret = RetInt(0 - EINVAL) /\ r.reqs = <<>> /\ r.s = St
                   ELSE r.ret = RetInt(0 - ENOENT)

\* truncate of a path that is not in the listing of its container
\* returned -ENOENT
C4_Witness ==
    /\ last.op = "truncate"
    /\ last.k = "int"
    /\ last.n = 0 - ENOENT

\* the answers in which one request fails on the server
FailingAnswers ==
    {NoFault} \cup Fault("l1", {500}) \cup Fault("get", {500}) \cup Fault("put", {500})
    \cup Fault("del", {500}) \cup Fault("head", {500})

\* C5: each operation of the adapter reports a failure as a negative errno
\* only: no exception leaves create, mkdir, getattr, read, readdir, write,
\* flush, truncate, unlink, rmdir, rename, open, getxattr or listxattr
C5_NeverPanics ==
    \A p \in ValidPaths, a \in FailingAnswers :
        "raise" \notin
            {create(St, p, a).ret.k, mkdir(St, p, a).ret.k, getattr(St, p, a).ret.k,
             read(St, p, 1, 0, a).ret.k, readdir(St, p, a).ret.k,
             write(St, p, <<"p">>, 0, a).ret.k, flush(St, p, a).ret.k,
             truncate(St, p, 0, a).ret.k, unlink(St, p, a).ret.k, rmdir(St, p, a).ret.k,
             rename(St, p, <<"/", "x">>, a).ret.k, open(St, p, 0).ret.k,
             getxattr(St, p, "user.mime_type", 0, a).ret.k, listxattr(St, p, 0, a).ret.k}

\* the errnos of the rules of path validation that path p breaks
Violations(p) ==
    IF p = NotAString THEN {EFAULT}
    ELSE (IF StartsWithSlash(p) THEN {} ELSE {ENOTDIR})
         \cup (IF PathLen(p) > 1024 THEN {ENAMETOOLONG} ELSE {})
         \cup (IF HasSentinel(p) THEN {EINVAL} ELSE {})

\* the result r is the refusal of a path that breaks the rules V: their
\* errno, no request, the adapter's state as it was
Refused(r, V) ==
    /\ r.ret.k = "int"
    /\ (0 - r.ret.n) \in V
    /\ r.reqs = <<>>
    /\ r.s = St

\* every operation that takes path p, under answers a
OnPath(p, a) ==
    {log_not_supported(St, p), create(St, p, a), getattr(St, p, a), mkdir(St, p, a),
     readdir(St, p, a), flush(St, p, a), unlink(St, p, a), rmdir(St, p, a)}
    \cup {getxattr(St, p, n, 0, a) : n \in {"user.mime_type"}}
    \cup {listxattr(St, p, size, a) : size \in {0, 1}}
    \cup {open(St, p, flags) : flags \in {0, O_APPEND}}
    \cup {read(St, p, 1, offset, a) : offset \in {0, 1}}
    \cup {truncate(St, p, size, a) : size \in {0 - 1, 0, 1}}
    \cup {write(St, p, b, 0, a) : b \in {<<>>, <<"p">>}}

\* C6: an operation on a path that is not a string, does not begin with
\* "/", is longer than 1024 or holds the sentinel returns -EFAULT, -ENOTDIR,
\* -ENAMETOOLONG or -EINVAL, makes no request and leaves the adapter's
\* state alone, and so does rename for either of its paths; a path of
\* exactly 1024 characters is valid
C6_PathValidationFirst ==
    Running =>
        /\ \A p \in InvalidPaths :
              /\ Violations(p) # {}
              /\ \A r \in OnPath(p, NoFault) : Refused(r, Violations(p))
              /\ \A q \in Paths :
                    /\ Refused(rename(St, p, q, NoFault), Violations(p) \cup Violations(q))
                    /\ Refused(rename(St, q, p, NoFault), Violations(p) \cup Violations(q))
        /\ PathLen(<<"/", Long1023>>) = 1024
        /\ Violations(<<"/", Long1023>>) = {}
        /\ log_not_supported(St, <<"/", Long1023>>).ret = RetInt(0)
        /\ open(St, <<"/", Long1023>>, 0).ret = RetNone

\* an operation refused a path of more than 1024 characters
C6_Witness ==
    /\ last.k = "int"
    /\ last.n = 0 - ENAMETOOLONG
    /\ last.sent = <<>>

\* flags with the bit O_APPEND
AppendFlags == {O_APPEND, O_APPEND + 1, O_APPEND + 2, 3 * O_APPEND, 3 * O_APPEND + 1}

FlushAnswers ==
    {[NoFault EXCEPT !.put = x, !.del = y, !.dirFirst = o, !.newFirst = o] :
        x \in {0, 500}, y \in {0, 404, 500}, o \in BOOLEAN}

\* the methods and URIs of the requests, among those made, that change the Pod
SentTo(reqs) ==
    [i \in 1..Len(SelectSeq(reqs, IsChange)) |->
        <<SelectSeq(reqs, IsChange)[i].m, SelectSeq(reqs, IsChange)[i].u>>]

\* C8: flush of a path with a buffer sends a DELETE of the resource, and
\* before the PUT, exactly when the type detected in the buffer is not the
\* content type the resource had; when it is, flush sends one PUT and no
\* DELETE
C8_DeleteIffContentTypeChanged ==
    Running => \A p \in ValidPaths, a \in FlushAnswers :
        LET g == get_resource_by_path(Ctx(St), p, a)
            uri == g.key.uri
            content == wbuf[uri]
            previous == g.c.s.res[g.key].ct
            detected == IF content = <<>> THEN previous ELSE Magic(content)
            f == flush(St, p, a)
        IN (g.exc = NoExc /\ uri \in DOMAIN wbuf)
           => IF detected # previous
              THEN SentTo(f.reqs) \in {<<<<"DELETE", uri>>>>,
                                       <<<<"DELETE", uri>>, <<"PUT", uri>>>>}
              ELSE SentTo(f.reqs) = <<<<"PUT", uri>>>>

\* flush deleted and put d/x, which is HTML now
C8_Witness ==
    /\ last.op = "flush"
    /\ last.sent = <<"DELETE", "PUT">>
    /\ <<"d", "/", "x">> \in DOMAIN srv
    /\ srv[<<"d", "/", "x">>].ct = "text/html"

\* C9: the flush that follows the create of a.ttl and a write to it sends
\* its PUT with the Content-Type text/turtle, which create took from the
\* extension
C9_PutCarriesExtensionType ==
    \A a \in WorkingAnswers, b \in Bufs \ {<<>>} :
        LET p == <<"/", "a.ttl">>
            g == get_resource_by_path(Ctx(St), p, a)
            c == create(St, p, a)
            w == write(c.s, p, b, 0, a)
            f == flush(w.s, p, a)
        IN (g.exc = NotFoundExc /\ c.ret = RetInt(0) /\ w.ret = RetInt(Len(b))
            /\ f.ret = RetInt(0))
           => /\ \E i \in 1..Len(f.reqs) : f.reqs[i].m = "PUT"
              /\ \A i \in 1..Len(f.reqs) :
                    f.reqs[i].m = "PUT" => f.reqs[i].ct = "text/turtle"

\* the paths without an extension
PlainPaths == {<<"/", "x">>, <<"/", "d", "/", "x">>, <<"/", Long1023>>}

\* path p was created under answers a and then buffer b written to it, and
\* what is buffered for it is detected as text/plain
CreatedPlain(p, b, a) ==
    LET g == get_resource_by_path(Ctx(St), p, a)
        c == create(St, p, a)
        w == write(c.s, p, b, 0, a)
        r == get_resource_by_path(Ctx(w.s), p, a)
    IN /\ g.exc = NotFoundExc
       /\ c.ret = RetInt(0)
       /\ w.ret = RetInt(Len(b))
       /\ r.exc = NoExc
       /\ r.key.uri \in DOMAIN w.s.wbuf
       /\ w.s.wbuf[r.key.uri] # <<>>
       /\ Magic(w.s.wbuf[r.key.uri]) = "text/plain"

\* the state after that create and that write
AfterCreateWrite(p, b, a) == write(create(St, p, a).s, p, b, 0, a).s

Dots == {[name |-> <<".">>, type |-> 0, id |-> 0], [name |-> <<"..">>, type |-> 0, id |-> 0]}

\* the answers to the listings of one callback, refused or not
RefusedListings ==
    {[NoFault EXCEPT !.l1 = x, !.l2 = y] : x \in {0, 401, 403}, y \in {0, 401, 403}}

\* C11: when the GET of the listing of a container is answered 403 or 401,
\* readdir of that container yields "." and ".." only, reports no error,
\* and the container's membership is recorded as the empty set
C11_ForbiddenListingIsEmpty ==
    \A p \in ValidPaths, a \in RefusedListings, st \in {401, 403} :
        LET g == get_resource_by_path(Ctx(St), p, a)
            r == readdir(St, p, a)
        IN (/\ g.exc = NoExc
            /\ g.key.dir
            /\ ~g.c.s.contains[g.key].pop
            /\ \E i \in 1..Len(r.reqs) :
                  r.reqs[i].m = "GET" /\ r.reqs[i].u = g.key.uri /\ r.reqs[i].st = st)
           => /\ r.ret = RetGen(Dots)
              /\ r.s.contains[g.key] = Populated({})

\* the paths that create is called with: the valid ones and one below a file
CreatePaths == ValidPaths \cup {<<"/", "d", "/", "x", "/", "x">>}

\* the answers to the requests of create
CreateAnswers ==
    {[NoFault EXCEPT !.put = x, !.l1 = y] : x \in {0, 200, 201, 204, 403, 500}, y \in {0, 500}}

\* C12: create of a path whose parent resolves to a File returns -ENOTDIR
\* and sends no PUT; when its PUT is answered 201 or 204 it returns 0 and a
\* File with the URI parent.uri + name is in the parent's contains; in every
\* other case it returns a negative errno and the parent's contains is what
\* it was
C12_CreateFrame ==
    Running => \A p \in CreatePaths, a \in CreateAnswers :
        LET g == get_resource_by_path(Ctx(St), RSplitParent(p), a)
            c == create(St, p, a)
        IN IF g.exc # NoExc
           THEN c.ret.k = "int" /\ c.ret.n < 0 /\ Sent(c.reqs) = <<>>
           ELSE IF ~g.key.dir
           THEN c.ret = RetInt(0 - ENOTDIR) /\ Sent(c.reqs) = <<>>
           ELSE IF Answered(c, "PUT", 201) \/ Answered(c, "PUT", 204)
           THEN /\ c.ret = RetInt(0)
                /\ \E k \in c.s.contains[g.key].kids :
                      ~k.dir /\ k.uri = g.key.uri \o RSplitName(p)
           ELSE /\ c.ret.k = "int"
                /\ c.ret.n < 0
                /\ c.s.contains[g.key] = g.c.s.contains[g.key]

\* create returned 0 and a.ttl is a child of the root
C12_Witness ==
    /\ last.op = "create"
    /\ last.k = "int"
    /\ last.n = 0
    /\ \E k \in contains[RootKey].kids : ~k.dir /\ k.uri = <<"a.ttl">>

\* the answers to the PUT of mkdir, from a Pod that serves the listings
MkdirAnswers ==
    {[NoFault EXCEPT !.put = x, !.dirFirst = o, !.newFirst = o] :
        x \in {0, 201, 204}, o \in BOOLEAN}

\* mkdir(p) under answers a returned 0 after a PUT of parent.uri + name + "/"
\* answered 201 or 204, and a Container of that URI is among the children
\* of the parent
MadeContainer(p, a) ==
    LET g == get_resource_by_path(Ctx(St), RSplitParent(p), a)
        m == mkdir(St, p, a)
        target == g.key.uri \o RSplitName(p) \o <<"/">>
    IN /\ m.ret = RetInt(0)
       /\ SentTo(m.reqs) = <<<<"PUT", target>>>>
       /\ \E k \in m.s.contains[g.key].kids : k.dir /\ k.uri = target

\* after mkdir(p) under answers a, p resolves to a Container of the URI
\* parent.uri + name + "/" among the children of its parent
ResolvesToContainer(p, a) ==
    LET g == get_resource_by_path(Ctx(St), RSplitParent(p), a)
        m == mkdir(St, p, a)
        r == get_resource_by_path(Ctx(m.s), p, a)
    IN /\ r.exc = NoExc
       /\ r.key.dir
       /\ r.key.uri = g.key.uri \o RSplitName(p) \o <<"/">>
       /\ r.key \in r.c.s.contains[g.key].kids

\* after mkdir(p) under answers a, readdir(p) yields "." and ".." and
\* nothing else
ListsEmpty(p, a) == readdir(mkdir(St, p, a).s, p, a).ret = RetGen(Dots)

\* after mkdir(p) under answers a, the names that readdir(p) yields are "."
\* and ".." and those of the children that the Pod holds in the container
ListsPod(p, a) ==
    LET g == get_resource_by_path(Ctx(St), RSplitParent(p), a)
        m == mkdir(St, p, a)
        target == g.key.uri \o RSplitName(p) \o <<"/">>
        rd == readdir(m.s, p, a)
    IN /\ rd.ret.k = "gen"
       /\ {e.name : e \in rd.ret.e}
            = {<<".">>, <<"..">>}
              \cup {RStrip(relative_to(target, u)) :
                        u \in {v \in DOMAIN m.s.srv : IsChildUri(target, v)}}

\* the PUT of mkdir(p) under answers a was answered 201 or 204
MkdirServed(p, a) ==
    Answered(mkdir(St, p, a), "PUT", 201) \/ Answered(mkdir(St, p, a), "PUT", 204)

\* C13 as claimed: mkdir of a path that ends in "/" returns -EINVAL without
\* a request; otherwise, when its PUT is answered 201 or 204, mkdir
\* returns 0, the path resolves to a Container among its parent's children
\* and readdir of it yields "." and ".." only
C13_MkdirThenList ==
    \A p \in ValidPaths, a \in MkdirAnswers :
        IF EndsWithSlash(p)
        THEN mkdir(St, p, a) = [s |-> St, reqs |-> <<>>, ret |-> RetInt(0 - EINVAL)]
        ELSE MkdirServed(p, a)
             => MadeContainer(p, a) /\ ResolvesToContainer(p, a) /\ ListsEmpty(p, a)

\* C13 as the code has it: the Container is added to the parent's children
\* whenever the PUT is answered 201 or 204; when the path did not resolve
\* before mkdir, it resolves to that Container afterwards and readdir of it
\* yields "." and ".." and the children that the Pod holds in it, none for
\* a container that the Pod did not hold before
C13_MkdirThenListOfPod ==
    Running => \A p \in ValidPaths, a \in MkdirAnswers :
        IF EndsWithSlash(p)
        THEN mkdir(St, p, a) = [s |-> St, reqs |-> <<>>, ret |-> RetInt(0 - EINVAL)]
        ELSE MkdirServed(p, a)
             => /\ MadeContainer(p, a)
                /\ get_resource_by_path(Ctx(St), p, a).exc = NotFoundExc
                      => ResolvesToContainer(p, a) /\ ListsPod(p, a)

\* mkdir returned 0 and the container x/ is a child of the root
C13_Witness ==
    /\ last.op = "mkdir"
    /\ last.k = "int"
    /\ last.n = 0
    /\ \E k \in contains[RootKey].kids : k.dir /\ k.uri = <<"x", "/">>

\* C14: readdir of a path that resolves to a File returns -ENOTDIR
C14_ReaddirOfFileENOTDIR ==
    \A p \in ValidPaths, a \in WorkingAnswers :
        LET g == get_resource_by_path(Ctx(St), p, a)
        IN (g.exc = NoExc /\ ~g.key.dir)
           => readdir(St, p, a).ret = RetInt(0 - ENOTDIR)

\* the sources and targets of rename, and the answers to its requests
RenameSources == {<<"/", "d", "/", "x">>, <<"/", "x">>, <<"/", "a.ttl">>, <<"/", "d">>}
RenameTargets == {<<"/", "x">>, <<"/", "a.ttl">>, <<"/", "d", "/", "x">>, <<"/", "d", "/">>}
RenameAnswers ==
    {NoFault} \cup Fault("l1", {500}) \cup Fault("get", {404, 500})
    \cup Fault("put", {200, 500}) \cup Fault("del", {202, 500})

\* no DELETE among the requests
NoDelete(reqs) == \A i \in 1..Len(reqs) : reqs[i].m # "DELETE"

\* every DELETE among the requests comes after a GET answered 200 and,
\* after that, a PUT answered 201 or 204
DeleteComesLast(reqs) ==
    \A i \in 1..Len(reqs) :
        reqs[i].m = "DELETE"
        => \E j \in 1..(i - 1), k \in 1..(i - 1) :
              /\ j < k
              /\ reqs[j].m = "GET" /\ reqs[j].st = 200
              /\ reqs[k].m = "PUT" /\ reqs[k].st \in {201, 204}

\* C15: rename reads the source, creates the target, writes the target and
\* unlinks the source, in that order; a step that returns a negative value
\* ends the rename, which returns that value and leaves things as that step
\* left them; the source is unlinked only after the read, the create and
\* the write succeeded
C15_RenameShortCircuits ==
    Running => \A p \in RenameSources, q \in RenameTargets, a \in RenameAnswers :
        LET g == get_resource_by_path(Ctx(St), p, a)
            r == rename(St, p, q, a)
            rd == read(g.c.s, p, g.c.s.res[g.key].size, 0, a)
            cr == create(rd.s, q, a)
            wr == write(cr.s, q, rd.ret.b, 0, a)
            ul == unlink(wr.s, p, a)
        IN /\ DeleteComesLast(r.reqs)
           /\ IF g.exc # NoExc
              THEN r.ret.k = "int" /\ r.ret.n < 0 /\ Sent(r.reqs) = <<>>
              ELSE IF rd.ret.k = "int"
              THEN rd.ret.n < 0 /\ r.ret = rd.ret /\ r.s = rd.s /\ Sent(r.reqs) = <<>>
              ELSE IF cr.ret.n < 0
              THEN r.ret = cr.ret /\ r.s = cr.s /\ NoDelete(r.reqs)
              ELSE IF wr.ret.n < 0
              THEN r.ret = wr.ret /\ r.s = wr.s /\ NoDelete(r.reqs)
              ELSE /\ r.s = ul.s
                   /\ r.ret = IF ul.ret.n < 0 THEN ul.ret ELSE RetInt(0)
                   /\ r.reqs = g.c.reqs \o rd.reqs \o cr.reqs \o wr.reqs \o ul.reqs

\* rename ended at a create that failed: its PUT was sent, no DELETE
C15_Witness ==
    /\ last.op = "rename"
    /\ last.k = "int"
    /\ last.n < 0
    /\ last.sent = <<"PUT">>

\* C16: for a file with the flushed content old and no buffer pending, and
\* n from 0 to len(old), truncate(p, n), write(p, new, n), flush(p) and
\* read(p, n + len(new), 0) return old[:n] + new
C16_TruncateThenWrite ==
    \A p \in ValidPaths, new \in Bufs \ {<<>>}, a \in WorkingAnswers :
        LET g == get_resource_by_path(Ctx(St), p, a)
            old == srv[g.key.uri].body
        IN (g.exc = NoExc /\ ~g.key.dir /\ g.key.uri \in DOMAIN srv
            /\ g.key.uri \notin DOMAIN wbuf)
           => \A n \in 0..Len(old) :
                LET tr == truncate(St, p, n, a)
                    w == write(tr.s, p, new, n, a)
                    f == flush(w.s, p, a)
                    r == read(f.s, p, n + Len(new), 0, a)
                IN (tr.ret = RetInt(0) /\ w.ret = RetInt(Len(new)) /\ f.ret = RetInt(0)
                    /\ r.ret.k = "bytes")
                   => r.ret.b = SubSeq(old, 1, n) \o new

\* C17: after a write to a file and its flush, getxattr of user.mime_type
\* returns the type detected in the content flushed, which is the content
\* type of the resource, whatever getattr and read did before
C17_MimeTypeXattrAgrees ==
    \A p \in ValidPaths, b \in Bufs \ {<<>>}, a \in WorkingAnswers :
        LET g == get_resource_by_path(Ctx(St), p, a)
            w == write(St, p, b, 0, a)
            content == w.s.wbuf[g.key.uri]
            f == flush(w.s, p, a)
            r == get_resource_by_path(Ctx(f.s), p, a)
            x == getxattr(f.s, p, "user.mime_type", 1, a)
        IN (g.exc = NoExc /\ ~g.key.dir /\ w.ret = RetInt(Len(b)) /\ f.ret = RetInt(0)
            /\ r.exc = NoExc)
           => /\ x.ret = RetStr(Magic(content))
              /\ x.ret = RetStr(r.c.s.res[r.key].ct)

\* C19: a valid path other than "/" and that path without its final "/"
\* characters resolve to the same Resource; "/" resolves to the root
C19_TrailingSlashResolvesAlike ==
    /\ \A a \in WorkingAnswers :
          LET g == get_resource_by_path(Ctx(St), <<"/">>, a)
          IN g.exc = NoExc /\ g.key = RootKey
    /\ \A p \in ValidPaths \ {<<"/">>}, a \in WorkingAnswers :
          LET g == get_resource_by_path(Ctx(St), p, a)
              h == get_resource_by_path(Ctx(St), RStrip(p), a)
          IN g.exc = h.exc /\ g.key = h.key

\* the paths of a new container whose name is outside ASCII
DinoPaths == {<<"/", Dino>>, <<"/", "d", "/", Dino>>}

\* the URL, escapes in its path, of the container of such a path
EscapedUrl(p) ==
    SubSeq(p, 2, Len(p) - 1) \o <<"%", "F0", "%", "9F", "%", "A6", "%", "96", "/">>

\* the Pod answers as a working Pod does, or 200 to a PUT that it serves
MkdirDinoAnswers == WorkingAnswers \cup {[a EXCEPT !.put = 200] : a \in WorkingAnswers}

\* the entry of the new container under its decoded name, and no entry
\* under a name with an escape
YieldsDino(entries) ==
    /\ \E e \in entries : e.name = <<Dino>> /\ e.type = S_IFDIR
    /\ \A e \in entries : \A i \in 1..Len(e.name) : e.name[i] # "%"

\* C18: mkdir of a name outside ASCII sends its PUT to the URL whose path
\* has the escapes of the name; a later readdir of the parent (the
\* Container that mkdir resolved) yields the decoded name, when mkdir
\* added the container itself and when readdir finds it in the listing
\* that the Pod serves
C18_MkdirEscapesReaddirDecodes ==
    Running =>
    /\ \A p \in DinoPaths, a \in MkdirDinoAnswers :
          LET m == mkdir(St, p, a)
          IN /\ \A i \in 1..Len(m.reqs) :
                   m.reqs[i].m = "PUT" => m.reqs[i].u = EscapedUrl(p)
             /\ \A b \in WorkingAnswers :
                   LET r == readdir(m.s, ParentPath(p), b)
                       g == get_resource_by_path(Ctx(St), ParentPath(p), a)
                       h == get_resource_by_path(Ctx(m.s), ParentPath(p), b)
                   IN /\ (m.ret = RetInt(0) /\ h.exc = NoExc /\ h.key = g.key) =>
                            r.ret.k = "gen" /\ YieldsDino(r.ret.e)
                      /\ (/\ Answered(m, "PUT", 200)
                          /\ r.ret.k = "gen"
                          /\ \E i \in 1..Len(r.reqs) :
                                /\ r.reqs[i].m = "GET"
                                /\ r.reqs[i].u \o <<Dino>> = Tail(p)
                                /\ r.reqs[i].st = 200)
                         => YieldsDino(r.ret.e)
    /\ \A a \in WorkingAnswers :
          LET r == readdir(St, <<"/">>, a)
          IN (r.ret.k = "gen" /\ \E k \in r.s.contains[RootKey].kids : k.uri = <<Dino, "/">>)
             => YieldsDino(r.ret.e)

\* a readdir after mkdir has added the container of the name outside ASCII
C18_Witness ==
    /\ last.op = "readdir"
    /\ last.k = "gen"
    /\ \E k \in contains[RootKey].kids : k.uri = <<Dino, "/">> /\ k.dir

\* C20: un-quoting the quoted URL of a URIRef gives the URIRef back, and
\* the quoted URL has the scheme, the authority and what follows the path
\* of the URIRef as they were written
C20_QuotedUrlRoundTrip ==
    /\ conv.pc = "result" => conv.result = conv.uri_ref
    /\ conv.pc \in {"quoted_url", "result"} =>
          /\ Len(conv.quoted_url) >= 4 + Len(conv.rest)
          /\ SubSeq(conv.quoted_url, 1, 4) = <<conv.scheme, ":", "//", "pod">>
          /\ SubSeq(conv.quoted_url, Len(conv.quoted_url) - Len(conv.rest) + 1,
                    Len(conv.quoted_url)) = conv.rest

\* every callback with inputs of every kind
Callbacks(p, a) ==
    OnPath(p, a) \cup {rename(St, p, q, a) : q \in {<<"/", "x">>, <<"/", "a.ttl">>}}

\* C21: without SOLIDFS_CLIENT_ID there is no token, and no request
\* carries an Authorization header
C21_NoAuthorizationHeader ==
    /\ authenticate_with_client_credentials(SOLIDFS_CLIENT_ID) = None
    /\ \A p \in ValidPaths, a \in WorkingAnswers : \A r \in Callbacks(p, a) :
          \A i \in 1..Len(r.reqs) : "Authorization" \notin DOMAIN r.reqs[i].headers

\* C22: the listing of a container sends no POST to the websocket endpoint
\* for the Resources it discovers
C22_ListingSubscribesToNothing ==
    \A p \in ValidPaths, a \in WorkingAnswers :
        LET r == readdir(St, p, a)
        IN \A i \in 1..Len(r.reqs) :
              ~(r.reqs[i].m = "POST" /\ r.reqs[i].u = WebsocketEndpoint)

\* the statuses of the kinds other than 401 and 403
RemainingStatuses == {301, 400, 404, 406, 409, 500, 503}

\* one request of the callback is answered with a status of these
RemainingAnswers ==
    UNION {Fault(f, RemainingStatuses) : f \in {"l1", "l2", "get", "put", "del", "head"}}

\* the errno of the table for a status
TableErrno(st) ==
    CASE st = 404 -> ENOENT
      [] st = 406 -> ENOTSUP
      [] st >= 400 /\ st < 500 -> EINVAL
      [] st >= 300 /\ st < 400 -> EREMCHG
      [] st >= 500 /\ st < 600 -> EAGAIN

\* C23: a callback in which the requestor raises a typed HTTP error for a
\* status other than 401 and 403 returns the negative errno of the table
C23_ErrnoTable ==
    \A p \in ValidPaths, a \in RemainingAnswers : \A r \in Callbacks(p, a) :
        \A i \in 1..Len(r.reqs) :
            (transport = "httpx" /\ r.reqs[i].st \in RemainingStatuses)
                => r.ret = RetInt(0 - TableErrno(r.reqs[i].st))

\* the Pod refuses or fails the DELETE or the PUT of a flush, or serves both
FailingFlushAnswers ==
    WorkingAnswers \cup Fault("del", {400, 404, 500}) \cup Fault("put", {400, 500})

\* C24: after a flush of a pending buffer, whether it returned 0 or a
\* negative errno, the resource has no write buffer
C24_FlushDiscardsBuffer ==
    \A p \in ValidPaths, b \in Bufs, a \in FailingFlushAnswers :
        LET w == write(St, p, b, 0, NoFault)
            g == get_resource_by_path(Ctx(w.s), p, a)
            f == flush(w.s, p, a)
        IN (w.ret = RetInt(Len(b)) /\ g.exc = NoExc /\ g.key.uri \in DOMAIN w.s.wbuf
            /\ f.ret.k = "int")
           => g.key.uri \notin DOMAIN f.s.wbuf

\* C25: when flush sends a DELETE because the content type changed, it
\* sends the PUT of the buffer after it, whatever the Pod answered
C25_PutFollowsDelete ==
    \A p \in ValidPaths, b \in Bufs, a \in FailingFlushAnswers :
        LET w == write(St, p, b, 0, NoFault)
            f == flush(w.s, p, a)
        IN \A i \in 1..Len(f.reqs) :
              f.reqs[i].m = "DELETE"
                 => \E j \in (i + 1)..Len(f.reqs) :
                       f.reqs[j].m = "PUT" /\ f.reqs[j].u = f.reqs[i].u

\* the offsets and the buffers of the writes of C26
Offsets == 0..3
FirstBufs == {<<>>, <<"p">>, <<"p", "h">>}
SecondBufs == {<<>>, <<"h">>, <<"h", "p">>}

\* C26: write(path, buf, offset) of a file returns len(buf); the buffer is
\* then max(old length, offset + len(buf)) long, holds buf from offset on,
\* zero bytes between its old end and offset, and its old bytes everywhere
\* else; write sends neither PUT nor DELETE and leaves every other buffer
C26_WriteSplices ==
    Running =>
    \A p \in ValidPaths, a \in WorkingAnswers :
        LET g == get_resource_by_path(Ctx(St), p, a)
            uri == g.key.uri
        IN (g.exc = NoExc /\ ~g.key.dir) =>
           \A b1 \in FirstBufs :
              LET w1 == write(St, p, b1, 0, a)
                  old == w1.s.wbuf[uri]
              IN w1.ret = RetInt(Len(b1)) =>
                 \A buf \in SecondBufs, offset \in Offsets :
                    LET w == write(w1.s, p, buf, offset, a)
                        new == w.s.wbuf[uri]
                    IN /\ w.ret = RetInt(Len(buf))
                       /\ Len(new) = Max(Len(old), offset + Len(buf))
                       /\ \A i \in 1..Len(new) :
                             new[i] = IF offset < i /\ i <= offset + Len(buf)
                                      THEN buf[i - offset]
                                      ELSE IF i <= Len(old) THEN old[i]
                                      ELSE "0"
                       /\ Sent(w.reqs) = <<>>
                       /\ DOMAIN w.s.wbuf = DOMAIN w1.s.wbuf
                       /\ \A u \in DOMAIN w1.s.wbuf \ {uri} : w.s.wbuf[u] = w1.s.wbuf[u]
                       /\ w.s.srv = w1.s.srv

\* a write has put a byte into the buffer of a file
C26_Witness ==
    /\ last = [op |-> "write", k |-> "int", n |-> 1, sent |-> <<>>]
    /\ \E u \in DOMAIN wbuf : ~EndsWithSlash(u) /\ u # RootUri /\ Len(wbuf[u]) = 1

\* C27: truncate(p, size), size >= 0, of a resource that has a write
\* buffer, empty or not, cuts the buffer to its first size bytes, sends
\* nothing to the Pod, returns 0 and leaves stat.size the length of the
\* buffer
C27_TruncateOfBuffer ==
    \A p \in ValidPaths, b \in Bufs, size \in 0..3, a \in WorkingAnswers :
        LET w == write(St, p, b, 0, a)
            g == get_resource_by_path(Ctx(w.s), p, a)
            uri == g.key.uri
            t == truncate(w.s, p, size, a)
        IN (w.ret = RetInt(Len(b)) /\ g.exc = NoExc /\ ~g.key.dir /\ ~EndsWithSlash(p)
            /\ uri \in DOMAIN w.s.wbuf)
           => /\ t.ret = RetInt(0)
              /\ uri \in DOMAIN t.s.wbuf
              /\ t.s.wbuf[uri] = Slice(w.s.wbuf[uri], 0, size)
              /\ t.reqs = <<>>
              /\ t.s.res[g.key].size = Len(t.s.wbuf[uri])

\* C28: truncate(p, size), size > 0, of a file without a write buffer:
\* when the Pod holds fewer than size bytes it returns -EINVAL and leaves
\* the write buffers and stat.size as they were; otherwise, when it
\* returns 0, the Pod holds exactly size bytes
C28_TruncateWritesBack ==
    \A p \in ValidPaths, size \in 1..3, a \in WorkingAnswers :
        LET g == get_resource_by_path(Ctx(St), p, a)
            uri == g.key.uri
            t == truncate(St, p, size, a)
        IN (g.exc = NoExc /\ ~g.key.dir /\ ~EndsWithSlash(p) /\ uri \notin DOMAIN wbuf
            /\ uri \in DOMAIN srv)
           => IF Len(srv[uri].body) < size
              THEN /\ t.ret = RetInt(0 - EINVAL)
                   /\ t.s.wbuf = wbuf
                   /\ t.s.res[g.key].size = g.c.s.res[g.key].size
              ELSE t.ret = RetInt(0) =>
                      uri \in DOMAIN t.s.srv /\ Len(t.s.srv[uri].body) = size

\* every member of every populated Container is the Container's URI and
\* one more segment, with or without a final "/"
Contained(s) ==
    \A ck \in DOMAIN s.contains :
        s.contains[ck].pop => \A k \in s.contains[ck].kids : IsChildUri(ck.uri, k.uri)

\* C29: containment holds in every state reached, and after a listing, a
\* create, a mkdir or an unlink of any valid path
C29_Containment ==
    /\ Contained(St)
    /\ \A p \in ValidPaths, a \in WorkingAnswers :
          /\ Contained(readdir(St, p, a).s)
          /\ Contained(create(St, p, a).s)
          /\ Contained(mkdir(St, p, a).s)
          /\ Contained(unlink(St, p, a).s)

\* no Container holds two objects of one URI
NoTwins(s) ==
    \A ck \in DOMAIN s.contains : \A k1, k2 \in s.contains[ck].kids :
        k1.uri = k2.uri => k1 = k2

\* readdir yields no name twice
NoNameTwice(r) ==
    r.ret.k = "gen" => \A e1, e2 \in r.ret.e : e1.name = e2.name => e1 = e2

\* C30: no contains set ever holds two objects of one URI; create and
\* mkdir of a path that the parent's listing already shows add no second
\* entry, and readdir yields no name twice
C30_IdentityByUri ==
    /\ NoTwins(St)
    /\ \A p \in ValidPaths, a \in WorkingAnswers :
          LET listed == readdir(St, ParentPath(p), a)
              c == create(listed.s, p, a)
              m == mkdir(listed.s, p, a)
          IN /\ NoTwins(c.s)
             /\ NoTwins(m.s)
             /\ NoNameTwice(readdir(c.s, ParentPath(p), a))
             /\ NoNameTwice(readdir(m.s, ParentPath(p), a))

\* C31: every call of _get_root, in any interleaving of the threads, returns
\* the same Container object, whose URI is SOLIDFS_BASE_URL with its final
\* "/", and what one thread listed into it is populated for the others
C31_OneRootPerMount ==
    \A t \in DOMAIN thr, u \in DOMAIN thr :
        (thr[t].got # None /\ thr[u].got # None)
           => /\ thr[t].got = thr[u].got
              /\ thr[t].got.uri = RootUri
              /\ thr[t].pc = "listed" => contains[thr[u].got].pop

\* the bytes of the write of thread t are in bytes b, at the offset of the write
Holds(b, t) ==
    /\ Len(b) >= thr[t].offset + Len(thr[t].buf)
    /\ SubSeq(b, thr[t].offset + 1, thr[t].offset + Len(thr[t].buf)) = thr[t].buf

\* C32: in every interleaving of the writes and flushes of one path, the
\* bytes of each write that returned len(buf) are in the body of the PUT of
\* some flush or still in the write buffer, and each flush that returned
\* has returned 0
C32_NoAcknowledgedWriteLost ==
    \A t \in DOMAIN thr :
        /\ (thr[t].op = "write" /\ thr[t].pc = "returned" /\ thr[t].ret = Len(thr[t].buf))
              => \/ \E u \in DOMAIN wbuf : Holds(wbuf[u], t)
                 \/ \E f \in DOMAIN thr : thr[f].sent /\ Holds(thr[f].body, t)
        /\ (thr[t].op = "flush" /\ thr[t].pc = "returned") => thr[t].ret = 0

\* what the Pod answers to the GET of a listing: it serves it, with 200 or
\* another success status, or refuses or fails
ListingStatuses == {0, 201, 204, 301, 400, 401, 403, 404, 500, 503}

\* the GET requests among those made
IsGet(q) == q.m = "GET"

\* the callbacks that read no content, on path p
NotReading(p, a) ==
    {log_not_supported(St, p), create(St, p, a), getattr(St, p, a), mkdir(St, p, a),
     readdir(St, p, a), flush(St, p, a), unlink(St, p, a), rmdir(St, p, a),
     getxattr(St, p, "user.mime_type", 0, a), listxattr(St, p, 0, a),
     write(St, p, <<"p">>, 0, a)}

HeadAnswers == {NoFault} \cup Fault("head", {301, 400, 401, 403, 404, 500, 503})

\* C34: getattr sends a HEAD exactly when the resource it resolved has
\* st_mtime 0 or st_mode 0; when the Pod answers the HEAD with an error,
\* getattr still returns the stat of the resource, which is what it was
C34_RefreshIsAdvisory ==
    \A p \in ValidPaths, a \in HeadAnswers :
        LET g == get_resource_by_path(Ctx(St), p, a)
            r == getattr(St, p, a)
            heads == SelectSeq(r.reqs, LAMBDA q : q.m = "HEAD")
            before == g.c.s.res[g.key]
        IN g.exc = NoExc
           => /\ (heads # <<>>) <=> (before.mtime = 0 \/ before.mode = 0)
              /\ \A i \in 1..Len(heads) :
                    heads[i].st >= 300
                       => /\ r.ret = RetStat(before)
                          /\ r.s.res[g.key] = before

\* C35: a call of authenticate_with_client_credentials asks the token
\* endpoint exactly when no token is cached or the clock has reached the
\* cached expiry; a 200 sets the expiry to the time before the request plus
\* expires_in; a call that does not ask returns the cached token, before
\* its expiry
C35_TokenCacheExpiry ==
    [][/\ auth'.posted <=> (\/ auth.cached_token_expiry = <<>>
                             \/ auth'.now >= auth.cached_token_expiry[1])
       /\ (auth'.posted /\ auth'.status_code = 200)
             => auth'.cached_token_expiry = <<auth'.now + auth'.expires_in>>
       /\ ~auth'.posted
             => /\ auth'.returned = auth.cached_token_value
                /\ auth'.now < auth.cached_token_expiry[1]]_vars

\* the names of the members that the Pod holds in the container with URI cu
HeldIn(S, cu) == {RStrip(relative_to(cu, v)) : v \in {w \in DOMAIN S : IsChildUri(cu, w)}}

\* C36: after create or mkdir has returned 0 for a path whose parent
\* Container was unpopulated, readdir of the parent still yields every
\* member that the Pod held in it before
C36_NewChildKeepsSiblings ==
    \A p \in CreatePaths \ {<<"/">>}, a \in WorkingAnswers :
        LET g == get_resource_by_path(Ctx(St), RSplitParent(p), a)
        IN (g.exc = NoExc /\ g.key.dir /\ ~g.c.s.contains[g.key].pop)
           => \A made \in {create(St, p, a), mkdir(St, p, a)} :
                 made.ret = RetInt(0)
                    => LET rd == readdir(made.s, ParentPath(p), a)
                       IN /\ rd.ret.k = "gen"
                          /\ HeldIn(srv, g.key.uri) \subseteq {e.name : e \in rd.ret.e}

\* C37: after write(p, b, 0) of a file has returned len(b) and flush(p) has
\* returned 0 with its PUT served, read(p, size, offset) returns b[offset : offset +
\* size] for every offset > 0, at once and after a read at offset 0
C37_ReadAfterFlush ==
    \A p \in ValidPaths, b \in {x \in Bufs : Len(x) = 2}, a \in WorkingAnswers :
        LET g == get_resource_by_path(Ctx(St), p, a)
            w == write(St, p, b, 0, a)
            f == flush(w.s, p, a)
            first == read(f.s, p, 2, 0, a)
        IN (/\ g.exc = NoExc /\ ~g.key.dir
            /\ w.ret = RetInt(Len(b))
            /\ f.ret = RetInt(0)
            /\ \E i \in 1..Len(f.reqs) : f.reqs[i].m = "PUT" /\ f.reqs[i].st < 300)
           => \A offset \in {1, 2}, size \in {1, 2} :
                 /\ read(f.s, p, size, offset, a).ret
                       = RetBytes(Slice(b, offset, offset + size))
                 /\ read(first.s, p, size, offset, a).ret
                       = RetBytes(Slice(b, offset, offset + size))

\* C38: after unlink(p) of a file has returned 0, its URI has neither a
\* write buffer nor an entry of the read cache; a create(p) and flush(p)
\* that follow leave the new resource empty on the Pod, and a read of it at
\* an offset > 0 returns no byte
C38_UnlinkForgetsBuffers ==
    \A p \in ValidPaths, a \in WorkingAnswers :
        LET g == get_resource_by_path(Ctx(St), p, a)
            u == unlink(St, p, a)
            c == create(u.s, p, a)
            f == flush(c.s, p, a)
        IN (g.exc = NoExc /\ ~g.key.dir /\ u.ret = RetInt(0))
           => /\ g.key.uri \notin DOMAIN u.s.wbuf
              /\ g.key.uri \notin DOMAIN u.s.rbuf
              /\ (c.ret = RetInt(0) /\ f.ret = RetInt(0))
                    => /\ f.s.srv[g.key.uri].body = <<>>
                       /\ read(c.s, p, 1, 1, a).ret = RetBytes(<<>>)

\* C39: after rename(source, target) of a file has returned 0, a read of
\* target at offset 0 returns all the bytes that the Pod held for source,
\* and readdir of the parent of source no longer yields its name
C39_RenameKeepsContent ==
    \A p \in RenameSources, q \in RenameTargets, a \in WorkingAnswers :
        LET g == get_resource_by_path(Ctx(St), p, a)
            content == srv[g.key.uri].body
            r == rename(St, p, q, a)
        IN (g.exc = NoExc /\ ~g.key.dir /\ g.key.uri \in DOMAIN srv /\ p # q
            /\ r.ret = RetInt(0))
           => /\ read(r.s, q, Len(content) + 1, 0, a).ret = RetBytes(content)
              /\ \A e \in readdir(r.s, ParentPath(p), a).ret.e : e.name # RSplitName(p)

\* the Pod refuses or fails one request of a callback, or none
TransportAnswers ==
    {NoFault} \cup Fault("l1", {401, 403, 404, 500}) \cup Fault("get", {404, 500})
    \cup Fault("put", {403, 500}) \cup Fault("del", {404, 500}) \cup Fault("head", {403})

\* the callbacks on path p of the adapter in state s
CallbacksOf(s, p, a) ==
    [create |-> create(s, p, a), getattr |-> getattr(s, p, a), mkdir |-> mkdir(s, p, a),
     read |-> read(s, p, 1, 0, a), readdir |-> readdir(s, p, a), flush |-> flush(s, p, a),
     unlink |-> unlink(s, p, a), truncate |-> truncate(s, p, 1, a),
     write |-> write(s, p, <<"p">>, 0, a)]

\* C40: for the same callback and the same answers of the Pod, the adapter
\* on SolidRequest and the adapter on SolidHTTPX return the same value and
\* leave the same state
C40_TransportsInterchangeable ==
    \A p \in ValidPaths, a \in TransportAnswers :
        LET requests == CallbacksOf([St EXCEPT !.transport = "requests"], p, a)
            httpx == CallbacksOf([St EXCEPT !.transport = "httpx"], p, a)
        IN \A op \in DOMAIN requests :
              /\ requests[op].ret = httpx[op].ret
              /\ requests[op].s = [httpx[op].s EXCEPT !.transport = "requests"]

====
